---- MODULE Spec2Model ----
(***************************************************************************)
(* The periodic statistics sampler of stress-ng (vmstat / thermalstat /    *)
(* iostat), src/stress-ping-sock.c lines 186-1328: stress_vmstat_start()   *)
(* forks a worker that sleeps, reads counter sources and prints rates;     *)
(* stress_vmstat_stop() kills and reaps it.  Linux build with              *)
(* HAVE_SYS_SYSMACROS_H (the iostat source is compiled in).                *)
(*                                                                         *)
(* Time is in whole seconds, relative to the worker's loop start           *)
(* (t1 = stress_time_now() at line 1164 is time 0).                        *)
(***************************************************************************)
EXTENDS Integers, Sequences, FiniteSets, TLC

(***************************************************************************)
(* Bounds of the model                                                     *)
(***************************************************************************)
\* workers that can be forked (pids 1..MaxForks)
MaxForks == 2
\* cycles of the worker loop that are followed
MaxCycles == 3
\* seconds that the reading and reporting of one cycle can take
MaxLate == 2
\* cycles of a long run of the worker in which every wake is on time
MaxReports == 52
\* cycles of a run in which single tables cannot be read
MaxReadCycles == 3
\* characters of a device name behind its /dev/ prefix
MaxNameLen == 3
\* children that stress_vm_segv forks
MaxSegvForks == 2
\* children that stress_pipeherd forks (PIPE_HERD_MAX of them in the code)
MaxHerd == 2
\* the value up to which the token of the pipe herd is followed
MaxToken == 6
\* distinct (offset, type) pairs that stress_fsize_reported is asked about
MaxPairs == 258
\* the largest swap size of a memory table that is read
MaxSwap == 8
\* the width in bits of the time stamp counter words that are followed (the
\* uint64_t of the source scaled down: bit TscBits - 1 stands for bit 63)
TscBits == 4
\* the largest sockabuse-ops limit that is followed
MaxSockOps == 2
\* the largest sendfile-ops limit that is followed
MaxSendOps == 6

(***************************************************************************)
(* Program constants                                                       *)
(***************************************************************************)
INT_MAX == 2147483647
\* a header line every 25th report of a kind
HeaderPeriod == 25

Sources == {"vmstat", "thermalstat", "iostat"}

\* struct stress_vmstat_t: fields copied as read (gauges) ...
VMSTAT_COPY_FIELDS ==
    {"procs_running", "procs_blocked", "swap_total", "swap_used", "swap_free",
     "memory_free", "memory_buff", "memory_cached", "memory_reclaimable"}
\* ... and fields differenced against the previous snapshot
VMSTAT_DELTA_FIELDS ==
    {"swap_in", "swap_out", "block_in", "block_out", "interrupt",
     "context_switch", "user_time", "system_time", "idle_time", "wait_time",
     "stolen_time"}
VMSTAT_FIELDS == VMSTAT_COPY_FIELDS \cup VMSTAT_DELTA_FIELDS
\* the six fields printed as field / vmstat_delay
VMSTAT_RATE_FIELDS ==
    {"swap_in", "swap_out", "block_in", "block_out", "interrupt",
     "context_switch"}

\* struct stress_iostat_t
IOSTAT_FIELDS ==
    {"read_io", "read_merges", "read_sectors", "read_ticks",
     "write_io", "write_merges", "write_sectors", "write_ticks",
     "in_flight", "io_ticks", "time_in_queue",
     "discard_io", "discard_merges", "discard_sectors", "discard_ticks"}
\* the fields of the iostat line, each printed as value * clk_scale
IOSTAT_LINE_FIELDS ==
    {"in_flight", "read_sectors", "write_sectors", "discard_sectors",
     "read_io", "write_io", "discard_io"}
IOSTAT_SECTOR_FIELDS == {"read_sectors", "write_sectors", "discard_sectors"}

\* the three tables stress_read_vmstat opens
Tables == {"/proc/stat", "/proc/meminfo", "/proc/vmstat"}

\* which table supplies which field (the last table that sets it wins)
TableOf(f) ==
    IF f \in {"memory_free", "memory_buff", "memory_cached",
              "memory_reclaimable", "swap_total", "swap_free", "swap_used"}
    THEN "/proc/meminfo"
    ELSE IF f \in {"block_in", "block_out", "swap_in", "swap_out"}
    THEN "/proc/vmstat"
    ELSE "/proc/stat"

\* outcomes of one read of the vmstat tables: the set of tables that could
\* be opened and parsed
ReadOutcomes == {Tables, {}}

\* the delays the three options can be given (0: option absent)
Configs ==
    { <<a, 0, c>> : a \in 0..1, c \in 0..1 } \cup
    { <<0, 1, 0>>, <<0, 3600, 0>>, <<0, 2, 3>>, <<5, 7, 11>>, <<7, 5, 11>> }

\* the options of a command line that sets the intervals of configuration c:
\* one option, <<knob, value>>, for every interval that is not left absent
LineOf(c) ==
    SelectSeq(<< <<"vmstat", c[1]>>, <<"thermalstat", c[2]>>,
                 <<"iostat", c[3]>> >>,
              LAMBDA o : o[2] # 0)

\* command lines with an option value that stress_set_generic_stat refuses
BadLines ==
    { << <<"vmstat", 0>> >>,
      << <<"thermalstat", -1>> >>,
      << <<"vmstat", 1>>, <<"iostat", 3601>> >>,
      << <<"iostat", 0>>, <<"vmstat", 1>> >> }

\* the command lines followed
CommandLines == { LineOf(c) : c \in Configs } \cup BadLines

Pids == 1..MaxForks

VARIABLES
    \* configuration, set by the option setters before start
    vmstat_delay, thermalstat_delay, iostat_delay,
    opts,           \* the interval options not parsed yet, <<knob, value>>
    report,         \* what the caller's process has reported: "none", or
                    \* "range" (the message of line 289 and EXIT_FAILURE)
    \* the caller (parent process)
    vmstat_pid,     \* static pid_t vmstat_pid
    ppc,            \* "options" while the setters run, "idle", "waitpid"
                    \* inside stress_vmstat_stop, "exited" after _exit()
    procs,          \* pid -> "unborn" | "running" | "zombie" | "reaped"
    last_call,      \* the call that returned last: "none" | "start" | "stop"
    \* the worker that was forked last (pid wpid); a worker forked earlier
    \* runs the same loop on its own copy of this state and shares nothing
    \* with any other process: it is followed only in procs
    wpid,
    wpc,            \* "none" | "init" | "loop" | "sleeping" | "exited"
    keep_stressing, \* the worker's keep_stressing_flag()
    vmstat_sleep, thermalstat_sleep, iostat_sleep,
    t1,             \* wake target
    now,            \* stress_time_now() in the worker
    iostat_found,   \* stress_iostat_iostat_name() != NULL
    vmstat, vmstat_prev, iostat, iostat_prev,
    vmstat_count, thermalstat_count, iostat_count,
    vmstat_out, iostat_out,   \* the last data line printed (pr_inf)
    wake_out,       \* the reports of the last cycle in the order they were
                    \* printed, each with the header line it had or not
    \* history of the worker
    vmstat_was, iostat_was,   \* the previous snapshot before the last get
    vm_reads, io_reads,       \* calls of stress_get_vmstat / stress_get_iostat
    vm_at, vm_was_at,         \* time of the last two vmstat reads
    vm_tabs,                  \* the tables the last vmstat read could open
    io_at, io_was_at,         \* time of the last two iostat reads
    fire,           \* source -> [first, last, gap] in scheduled seconds
    \* stress_iostat_iostat_name(), a call of its own
    name_pc,        \* "start" | "loop" | "done"
    mount_dev,      \* what stress_find_mount_dev returned: a list of
                    \* characters, or <<"NULL">>
    sys_block,      \* the device names with a /sys/block/<name>/stat
    dev,            \* char *dev: the candidate, cut shorter in place
    iostat_name,    \* the result: [null |-> TRUE] or the name found
    tries,          \* iterations of the loop
    \* stress_vm_segv() (src/stress-vm-segv.c)
    have_ptrace,    \* the build: HAVE_PTRACE defined or not
    segv_pc,        \* the parent: "fork" | "wait1" | "trace" | "wait2" |
                    \* "kill_child" | "while" | "finish" | "done" | "error"
    segv_child,     \* "none" | "alive" (forked and not yet waited for dead)
    segv_status,    \* what the last waitpid() gave
    segv_counter,   \* the bogo counter of args
    segv_flag,      \* keep_stressing_flag()
    segv_max_ops,   \* args->max_ops, 0 for no limit
    test_valid,
    segv_fail,      \* pr_fail of line 169 was printed
    segv_forks,     \* children forked so far
    segv_incs,      \* increments of the counter for the child forked last
    \* stress_pipeherd() (src/stress-pipeherd.c); process 0 is the parent
    herd_pc,        \* process -> "unborn" | "forking" | "loop" | "read" |
                    \* "write" | "final_read" | "reap" | "exited" | "done"
    herd_counter,   \* process -> its local int64_t counter (the token read)
    pipe_fd,        \* the tokens in the pipe
    herd_bogo,      \* the bogo counter of args
    herd_flag,      \* keep_stressing_flag()
    herd_max_ops,   \* args->max_ops, 0 for no limit
    herd_i,         \* int i of the fork loop
    \* stress_fsize_reported() (src/stress-sendfile.c lines 267-292)
    reported,       \* the entries 0..max-1 of the static table
    fsize_arg,      \* <<offset, type>> of the last call
    fsize_ret,      \* what the last call returned
    fsize_order,    \* the distinct pairs of all calls, in the order of
                    \* their first call
    fsize_new,      \* the last call was the first for its pair
    \* the swap lines of one read of /proc/meminfo (lines 692-714)
    meminfo,        \* the values of the SwapTotal, SwapFree and SwapUsed
                    \* lines; SwapUsed is 0 when the table has no such line
    swap_pc,        \* "idle" | "start" | "done"
    swap,           \* the swap fields of the snapshot
    \* the verifying loop of stress_tsc (src/stress-sendfile.c 746-760, 845-847)
    tsc_pc,         \* "idle" | "read" | "check" | "assign"
    tsc, old_tsc,
    tsc_fail,       \* the last stress_tsc_check printed its pr_fail
    \* stress_sockabuse() (src/stress-sockabuse.c): the parent, which becomes
    \* the server, and the client child
    sock_pc,        \* "idle" | "reserve" | "sighandler" | "fork" |
                    \* "sig_stop" | "socket" | "check" | "accept" |
                    \* "blocked" | "serve" | "after_for" | "while" | "die" |
                    \* "finish" | "returned"
    port,           \* "free" | "reserved" | "released"
    sock_flag,      \* keep_stressing_flag() in the parent
    sock_counter,   \* the bogo counter of args, in shared memory
    sock_max_ops,   \* args->max_ops
    srv_i,          \* int i of the accept loop
    listening,      \* the server has a listening socket fd
    conn,           \* the client's connection: "none" | "queued" (in the
                    \* backlog of the listening socket) | "accepted" |
                    \* "over" (the server has sent and closed, or reset it)
    sigalrm,        \* a SIGALRM sent to the parent is pending
    cl_pc,          \* "unborn" | "retry" | "socket" | "sockaddr" |
                    \* "connect" | "recv" | "close" | "while" | "signal" |
                    \* "exited" | "reaped"
    cl_fd,          \* the client has a socket fd open
    cl_flag,        \* keep_stressing_flag() in the client
    cl_delay,       \* uint64_t delay, in microseconds
    \* stress_sendfile() (src/stress-sendfile.c lines 62-199)
    sf_pc,          \* "idle" | "mkdir" | "open" | "fallocate" | "reopen" |
                    \* "open_out" | "loop" | "close_out" | "close_in" |
                    \* "dir_out" | "returned"
    sf_dir,         \* the temporary directory: "none" | "made" | "removed"
    sf_file,        \* the temporary file exists
    sf_fdin,        \* fdin is an open descriptor
    sf_fdout,       \* fdout is an open descriptor
    sf_flag,        \* keep_stressing_flag()
    sf_counter,     \* the bogo counter of args
    sf_max_ops,     \* args->max_ops
    sf_i            \* int i

cfgVars    == <<vmstat_delay, thermalstat_delay, iostat_delay, opts, report>>
parentVars == <<vmstat_pid, ppc, procs, last_call>>
workerVars == <<wpid, wpc, keep_stressing, vmstat_sleep, thermalstat_sleep,
                iostat_sleep, t1, now, iostat_found, vmstat, vmstat_prev,
                iostat, iostat_prev, vmstat_count, thermalstat_count,
                iostat_count, vmstat_out, iostat_out, wake_out>>
histVars   == <<vmstat_was, iostat_was, vm_reads, io_reads, vm_at, vm_was_at,
                vm_tabs,
                io_at, io_was_at, fire>>
nameVars   == <<name_pc, mount_dev, sys_block, dev, iostat_name, tries>>
\* the state of the calls that are followed on their own
segvVars   == <<have_ptrace, segv_pc, segv_child, segv_status, segv_counter,
                segv_flag, segv_max_ops, test_valid, segv_fail, segv_forks,
                segv_incs>>
herdVars   == <<herd_pc, herd_counter, pipe_fd, herd_bogo, herd_flag,
                herd_max_ops, herd_i>>
fsizeVars  == <<reported, fsize_arg, fsize_ret, fsize_order, fsize_new>>
swapVars   == <<meminfo, swap_pc, swap>>
tscVars    == <<tsc_pc, tsc, old_tsc, tsc_fail>>
sockVars   == <<sock_pc, port, sock_flag, sock_counter, sock_max_ops, srv_i,
                listening, conn, sigalrm, cl_pc, cl_fd, cl_flag, cl_delay>>
sendVars   == <<sf_pc, sf_dir, sf_file, sf_fdin, sf_fdout, sf_flag,
                sf_counter, sf_max_ops, sf_i>>
moreVars   == <<swapVars, tscVars, sockVars, sendVars>>
auxVars    == <<nameVars, segvVars, herdVars, fsizeVars, moreVars>>
samplerVars == <<cfgVars, parentVars, workerVars, histVars>>
vars == <<samplerVars, auxVars>>
\* what a call followed on its own leaves alone
notNameVars == <<samplerVars, segvVars, herdVars, fsizeVars, moreVars>>
notSegvVars == <<samplerVars, nameVars, herdVars, fsizeVars, moreVars>>
notHerdVars == <<samplerVars, nameVars, segvVars, fsizeVars, moreVars>>
notFsizeVars == <<samplerVars, nameVars, segvVars, herdVars, moreVars>>
oldVars == <<samplerVars, nameVars, segvVars, herdVars, fsizeVars>>
notSwapVars == <<oldVars, tscVars, sockVars, sendVars>>
notTscVars == <<oldVars, swapVars, sockVars, sendVars>>
notSockVars == <<oldVars, swapVars, tscVars, sendVars>>
notSendVars == <<oldVars, swapVars, tscVars, sockVars>>

(***************************************************************************)
(* Counter sources                                                         *)
(***************************************************************************)
ZeroVmstat == [f \in VMSTAT_FIELDS |-> 0]
ZeroIostat == [f \in IOSTAT_FIELDS |-> 0]
NoVmstatLine == [header |-> FALSE, rate |-> [f \in VMSTAT_RATE_FIELDS |-> 0]]
NoIostatLine == [header |-> FALSE, clk_scale |-> <<0, 1>>,
                 val |-> [f \in IOSTAT_LINE_FIELDS |-> 0]]
NoFire == [s \in Sources |-> [first |-> 0, last |-> 0, gap |-> 0]]

\* the synthetic operating system: cumulative counters grow by 100 per
\* second, gauges move up and down
OsCounter(t) == 100 * (t + 1)
OsGauge(t) == (t % 3) + 1

\* what the tables hold at time t, before the swap_used fix-up
OsVmstat(t) ==
    [f \in VMSTAT_FIELDS |->
        IF f \in VMSTAT_DELTA_FIELDS THEN OsCounter(t)
        ELSE IF f = "swap_total" THEN 4
        ELSE IF f = "swap_used" THEN 0       \* no SwapUsed line in the table
        ELSE OsGauge(t)]

\* lines 710-714: the swap-used value after the memory table was read, for
\* the values total, free and used that its lines gave (0: no such line)
SwapUsed(total, free, used) ==
    IF (used = 0) /\ (free > 0) /\ (total > 0) THEN total - free ELSE used

\* a read that gives up, leaving every field 0, when one table cannot be
\* opened
stress_read_vmstat_all_or_nothing(tables, t) ==
    LET raw == [f \in VMSTAT_FIELDS |->
                   IF tables = Tables THEN OsVmstat(t)[f] ELSE 0]
    IN  IF tables = Tables /\ raw["swap_used"] = 0
           /\ raw["swap_free"] > 0 /\ raw["swap_total"] > 0
        THEN [raw EXCEPT !["swap_used"] = raw["swap_total"] - raw["swap_free"]]
        ELSE raw

\* stress_read_vmstat(): fields of the tables in `tables` get their value,
\* the others keep the 0 of the memset in stress_get_vmstat
stress_read_vmstat(tables, t) ==
    LET raw == [f \in VMSTAT_FIELDS |->
                   IF TableOf(f) \in tables THEN OsVmstat(t)[f] ELSE 0]
    IN  IF "/proc/meminfo" \in tables
        THEN [raw EXCEPT !["swap_used"] =
                 SwapUsed(raw["swap_total"], raw["swap_free"],
                          raw["swap_used"])]
        ELSE raw

\* stress_read_iostat(): all 15 values or zeros
stress_read_iostat(ok, t) ==
    IF ok
    THEN [f \in IOSTAT_FIELDS |->
             IF f = "in_flight" THEN OsGauge(t) ELSE OsCounter(t)]
    ELSE ZeroIostat

\* the difference without the guard against a counter that went back
STRESS_VMSTAT_DELTA_unguarded(cur, prev) == cur - prev

STRESS_VMSTAT_DELTA(cur, prev) == IF cur > prev THEN cur - prev ELSE 0

STRESS_IOSTAT_DELTA(cur, prev) == IF cur > prev THEN cur - prev ELSE 0

\* a result in which every field is differenced
stress_get_vmstat_all_delta(cur, prev) ==
    [f \in VMSTAT_FIELDS |-> STRESS_VMSTAT_DELTA(cur[f], prev[f])]

\* stress_get_vmstat(): the result for a current and a previous snapshot
stress_get_vmstat(cur, prev) ==
    [f \in VMSTAT_FIELDS |->
        IF f \in VMSTAT_COPY_FIELDS THEN cur[f]
        ELSE STRESS_VMSTAT_DELTA(cur[f], prev[f])]

\* stress_get_iostat(): every field is differenced
stress_get_iostat(cur, prev) ==
    [f \in IOSTAT_FIELDS |-> STRESS_IOSTAT_DELTA(cur[f], prev[f])]

(***************************************************************************)
(* Initial state: no option has been parsed, nothing was started           *)
(***************************************************************************)
\* the worker's locals and statics in a process that has not run the loop
WorkerFresh ==
    /\ keep_stressing = TRUE
    /\ t1 = 0 /\ now = 0 /\ iostat_found = FALSE
    /\ vmstat = ZeroVmstat /\ vmstat_prev = ZeroVmstat
    /\ iostat = ZeroIostat /\ iostat_prev = ZeroIostat
    /\ vmstat_count = 0 /\ thermalstat_count = 0 /\ iostat_count = 0
    /\ vmstat_out = NoVmstatLine /\ iostat_out = NoIostatLine
    /\ wake_out = <<>>
    /\ vmstat_was = ZeroVmstat /\ iostat_was = ZeroIostat
    /\ vm_reads = 0 /\ io_reads = 0
    /\ vm_at = 0 /\ vm_was_at = 0 /\ io_at = 0 /\ io_was_at = 0
    /\ vm_tabs = {}
    /\ fire = NoFire

\* the same in the next state: the memory of a child just forked, and what
\* is left of the memory of a process that has died
ForkedFresh ==
    /\ keep_stressing' = TRUE
    /\ t1' = 0 /\ now' = 0 /\ iostat_found' = FALSE
    /\ vmstat' = ZeroVmstat /\ vmstat_prev' = ZeroVmstat
    /\ iostat' = ZeroIostat /\ iostat_prev' = ZeroIostat
    /\ vmstat_count' = 0 /\ thermalstat_count' = 0 /\ iostat_count' = 0
    /\ vmstat_out' = NoVmstatLine /\ iostat_out' = NoIostatLine
    /\ wake_out' = <<>>
    /\ vmstat_was' = ZeroVmstat /\ iostat_was' = ZeroIostat
    /\ vm_reads' = 0 /\ io_reads' = 0
    /\ vm_at' = 0 /\ vm_was_at' = 0 /\ io_at' = 0 /\ io_was_at' = 0
    /\ vm_tabs' = {}
    /\ fire' = NoFire

\* the state before the first option of one of the command lines in `lines`
\* is parsed
SamplerInit(lines) ==
    /\ vmstat_delay = 0 /\ thermalstat_delay = 0 /\ iostat_delay = 0
    /\ opts \in lines
    /\ report = "none"
    /\ vmstat_pid = 0
    /\ ppc = (IF opts = <<>> THEN "idle" ELSE "options")
    /\ procs = [p \in Pids |-> "unborn"]
    /\ last_call = "none"
    /\ wpid = 0 /\ wpc = "none"
    /\ vmstat_sleep = 0 /\ thermalstat_sleep = 0 /\ iostat_sleep = 0
    /\ WorkerFresh

\* no call of stress_iostat_iostat_name is followed
NameIdle ==
    /\ name_pc = "done" /\ mount_dev = <<"NULL">> /\ sys_block = {}
    /\ dev = <<>> /\ iostat_name = [null |-> TRUE, dev |-> <<>>]
    /\ tries = 0

\* stress_vm_segv is not running
SegvIdle ==
    /\ have_ptrace = TRUE /\ segv_pc = "done" /\ segv_child = "none"
    /\ segv_status = "none" /\ segv_counter = 0 /\ segv_flag = FALSE
    /\ segv_max_ops = 0 /\ test_valid = FALSE /\ segv_fail = FALSE
    /\ segv_forks = 0 /\ segv_incs = 0

Herd == 0..MaxHerd

\* stress_pipeherd is not running
HerdIdle ==
    /\ herd_pc = [p \in Herd |-> IF p = 0 THEN "done" ELSE "unborn"]
    /\ herd_counter = [p \in Herd |-> 0]
    /\ pipe_fd = <<>> /\ herd_bogo = 0 /\ herd_flag = FALSE
    /\ herd_max_ops = 0 /\ herd_i = 0

\* stress_fsize_reported was never called: static size_t max is 0
FsizeStart ==
    /\ reported = <<>> /\ fsize_arg = <<0, 0>> /\ fsize_ret = FALSE
    /\ fsize_order = <<>> /\ fsize_new = FALSE

\* no memory table is read on its own
SwapIdle ==
    /\ meminfo = [SwapTotal |-> 0, SwapFree |-> 0, SwapUsed |-> 0]
    /\ swap_pc = "idle"
    /\ swap = [swap_total |-> 0, swap_free |-> 0, swap_used |-> 0]

\* no time stamp counter is read
TscIdle == tsc_pc = "idle" /\ tsc = 0 /\ old_tsc = 0 /\ tsc_fail = FALSE

\* stress_sockabuse is not running
SockIdle ==
    /\ sock_pc = "idle" /\ port = "free" /\ sock_flag = FALSE
    /\ sock_counter = 0 /\ sock_max_ops = 0 /\ srv_i = 0
    /\ listening = FALSE /\ conn = "none" /\ sigalrm = FALSE
    /\ cl_pc = "unborn" /\ cl_fd = FALSE /\ cl_flag = FALSE /\ cl_delay = 0

\* stress_sendfile is not running
SendIdle ==
    /\ sf_pc = "idle" /\ sf_dir = "none" /\ sf_file = FALSE
    /\ sf_fdin = FALSE /\ sf_fdout = FALSE /\ sf_flag = FALSE
    /\ sf_counter = 0 /\ sf_max_ops = 0 /\ sf_i = 0

MoreIdle == SwapIdle /\ TscIdle /\ SockIdle /\ SendIdle

\* the processes and calls that are followed on their own are not running
AuxIdle == NameIdle /\ SegvIdle /\ HerdIdle /\ FsizeStart /\ MoreIdle

InitWith(lines) == SamplerInit(lines) /\ AuxIdle

Init == InitWith(CommandLines)

(***************************************************************************)
(* The option setters (lines 282-309)                                      *)
(***************************************************************************)
\* the range test without its upper limit
InRange_no_upper(v) == ~(v < 1)

\* line 288, negated: the value is taken
InRange(v) == ~((v < 1) \/ (v > 3600))

\* stress_set_vmstat / stress_set_thermalstat / stress_set_iostat on the next
\* option: stress_set_generic_stat stores the value, then either returns 0
\* or prints the range message and ends the process with _exit(EXIT_FAILURE)
SetStat ==
    /\ ppc = "options"
    /\ opts # <<>>
    /\ LET knob == Head(opts)[1]
           v == Head(opts)[2]
       IN  /\ vmstat_delay' = IF knob = "vmstat" THEN v ELSE vmstat_delay
           /\ thermalstat_delay' =
                 IF knob = "thermalstat" THEN v ELSE thermalstat_delay
           /\ iostat_delay' = IF knob = "iostat" THEN v ELSE iostat_delay
           /\ opts' = Tail(opts)
           /\ IF InRange(v)
              THEN /\ ppc' = (IF Tail(opts) = <<>> THEN "idle" ELSE "options")
                   /\ report' = report
              ELSE /\ ppc' = "exited"
                   /\ report' = "range"
    /\ UNCHANGED <<auxVars, vmstat_pid, procs, last_call, workerVars, histVars>>

(***************************************************************************)
(* stress_vmstat_start(), the caller's side (lines 1129-1140)              *)
(***************************************************************************)
\* the test with its last comparison inverted
AllDisabled_inverted ==
    (vmstat_delay = 0) /\ (thermalstat_delay = 0) /\ (iostat_delay # 0)

\* lines 1129-1131: nothing to sample
AllDisabled ==
    (vmstat_delay = 0) /\ (thermalstat_delay = 0) /\ (iostat_delay = 0)

\* the pid the next successful fork returns
NextPid == Cardinality({p \in Pids : procs[p] # "unborn"}) + 1

\* line 1132: return without forking
StartNoop ==
    /\ ppc = "idle"
    /\ AllDisabled
    /\ last_call' = "start"
    /\ UNCHANGED <<auxVars, cfgVars, vmstat_pid, ppc, procs, workerVars, histVars>>

\* lines 1134-1140, fork() > 0: the child starts with a copy of the
\* caller's memory, in which the worker's statics were never touched
StartFork ==
    /\ ppc = "idle"
    /\ ~AllDisabled
    /\ NextPid \in Pids
    /\ vmstat_pid' = NextPid
    /\ procs' = [procs EXCEPT ![NextPid] = "running"]
    /\ last_call' = "start"
    /\ wpid' = NextPid
    /\ ForkedFresh
    /\ wpc' = "init"
    /\ vmstat_sleep' = vmstat_delay
    /\ thermalstat_sleep' = thermalstat_delay
    /\ iostat_sleep' = iostat_delay
    /\ UNCHANGED <<auxVars, cfgVars, ppc>>

\* lines 1138-1140, fork() < 0
StartForkFail ==
    /\ ppc = "idle"
    /\ ~AllDisabled
    /\ vmstat_pid' = -1
    /\ last_call' = "start"
    /\ UNCHANGED <<auxVars, cfgVars, ppc, procs, workerVars, histVars>>

(***************************************************************************)
(* stress_vmstat_stop() (lines 1320-1328)                                  *)
(***************************************************************************)
\* a signal that does not end the process
kill_ignored(st) == st

\* what kill(pid, SIGKILL) does to a process in state st: a running process
\* dies at once, wherever it is, and stays a zombie until it is waited for
kill(st) == IF st = "running" THEN "zombie" ELSE st

\* line 1322 false: nothing to stop
StopNoop ==
    /\ ppc = "idle"
    /\ ~(vmstat_pid > 0)
    /\ last_call' = "stop"
    /\ UNCHANGED <<auxVars, cfgVars, vmstat_pid, ppc, procs, workerVars, histVars>>

\* a stop without the test of line 1322: it goes on to kill() and waitpid()
\* whatever vmstat_pid holds
StopKill_unguarded ==
    /\ ppc = "idle"
    /\ ppc' = "waitpid"
    /\ UNCHANGED <<auxVars, cfgVars, vmstat_pid, procs, last_call, workerVars,
                   histVars>>

\* line 1325: kill(vmstat_pid, SIGKILL); the locals and statics of a worker
\* that dies go with its memory, wpc keeps where it was when it died
StopKill ==
    /\ ppc = "idle"
    /\ vmstat_pid > 0
    /\ procs' = [procs EXCEPT ![vmstat_pid] = kill(procs[vmstat_pid])]
    /\ ppc' = "waitpid"
    /\ IF vmstat_pid = wpid /\ procs[wpid] = "running"
          /\ procs'[wpid] # "running"
       THEN /\ ForkedFresh
            /\ vmstat_sleep' = 0 /\ thermalstat_sleep' = 0 /\ iostat_sleep' = 0
            /\ UNCHANGED <<wpid, wpc>>
       ELSE UNCHANGED <<workerVars, histVars>>
    /\ UNCHANGED <<auxVars, cfgVars, vmstat_pid, last_call>>

\* line 1326: waitpid(vmstat_pid, &status, 0) returns once the child is dead
\* (reaping it), or at once with ECHILD when there is no such child
StopWait ==
    /\ ppc = "waitpid"
    /\ procs[vmstat_pid] # "running"
    /\ procs' = [procs EXCEPT ![vmstat_pid] = "reaped"]
    /\ ppc' = "idle"
    /\ last_call' = "stop"
    /\ UNCHANGED <<auxVars, cfgVars, vmstat_pid, workerVars, histVars>>

(***************************************************************************)
(* The worker: prologue of the child (lines 1142-1164)                     *)
(***************************************************************************)
WorkerRuns == wpid \in Pids /\ procs[wpid] = "running"

\* the prologue without its first read
SeedsVmstat_never == FALSE

\* line 1144
SeedsVmstat == vmstat_delay # 0
\* the prologue without its first read
SeedsIostat_never == FALSE

\* line 1156
SeedsIostat == iostat_delay # 0

\* one call of stress_get_vmstat() at time t, the tables in tabs readable
GetVmstat(tabs, t) ==
    LET cur == stress_read_vmstat(tabs, t)
    IN  /\ vmstat' = stress_get_vmstat(cur, vmstat_prev)
        /\ vmstat_prev' = cur
        /\ vmstat_was' = vmstat_prev
        /\ vm_reads' = vm_reads + 1
        /\ vm_was_at' = vm_at
        /\ vm_at' = t
        /\ vm_tabs' = tabs

NoGetVmstat ==
    UNCHANGED <<vmstat, vmstat_prev, vmstat_was, vm_reads, vm_was_at, vm_at,
                vm_tabs>>

\* one call of stress_get_iostat() at time t
GetIostat(ok, t) ==
    LET cur == stress_read_iostat(ok, t)
    IN  /\ iostat' = stress_get_iostat(cur, iostat_prev)
        /\ iostat_prev' = cur
        /\ iostat_was' = iostat_prev
        /\ io_reads' = io_reads + 1
        /\ io_was_at' = io_at
        /\ io_at' = t

NoGetIostat ==
    UNCHANGED <<iostat, iostat_prev, iostat_was, io_reads, io_was_at, io_at>>

\* when discovery fails the name buffer holds no usable path, left
\* uninitialized or set to a candidate that does not exist: the read through
\* it can have any outcome
WorkerInitWith(outcomes) ==
    /\ WorkerRuns /\ wpc = "init"
    /\ \E tabs \in (IF SeedsVmstat THEN outcomes ELSE {Tables}),
          found \in BOOLEAN,
          io_ok \in (IF SeedsIostat THEN BOOLEAN ELSE {TRUE}) :
          /\ IF SeedsVmstat THEN GetVmstat(tabs, now) ELSE NoGetVmstat
          /\ iostat_found' = found
          /\ iostat_sleep' = IF found THEN iostat_sleep ELSE 0
          /\ IF SeedsIostat THEN GetIostat(io_ok, now) ELSE NoGetIostat
    /\ t1' = now
    /\ wpc' = "loop"
    /\ UNCHANGED <<auxVars, cfgVars, parentVars, wpid, keep_stressing, vmstat_sleep,
                   thermalstat_sleep, now, vmstat_count, thermalstat_count,
                   iostat_count, vmstat_out, iostat_out, wake_out, fire>>

\* lines 1142-1164: the prologue of the worker
WorkerInit == WorkerInitWith(ReadOutcomes)

(***************************************************************************)
(* The worker: the sampling loop (lines 1166-1313)                         *)
(***************************************************************************)
STRESS_MINIMUM(a, b) == IF a < b THEN a ELSE b

\* lines 1167-1179: the amount added to the wake target in every cycle
sleep_delay ==
    LET s0 == INT_MAX
        s1 == IF vmstat_delay > 0 THEN STRESS_MINIMUM(vmstat_delay, s0) ELSE s0
        s2 == IF thermalstat_delay > 0
              THEN STRESS_MINIMUM(thermalstat_delay, s1) ELSE s1
        s3 == IF iostat_delay > 0 THEN STRESS_MINIMUM(iostat_delay, s2) ELSE s2
    IN  s3

\* the cycles the loop has begun: every cycle adds sleep_delay to t1
Cycles == t1 \div sleep_delay

\* a countdown that is reset also when its interval is 0
Countdown_unguarded(sleep, delay) ==
    LET dec == sleep - sleep_delay
    IN  IF dec <= 0 THEN delay ELSE dec

\* lines 1192-1201: a countdown after the decrement and the reset
Countdown(sleep, delay) ==
    LET dec == sleep - sleep_delay
    IN  IF (delay > 0) /\ (dec <= 0) THEN delay ELSE dec

\* a test that also takes a countdown below the interval
Due_at_or_below(sleep, delay) == Countdown(sleep, delay) <= delay

\* lines 1203, 1245, 1293: the source reports in this cycle
Due(sleep, delay) == Countdown(sleep, delay) = delay

\* a wake target counted from the clock instead of the target before
NextTarget_from_clock(target, clock) == clock + sleep_delay

\* line 1180: the wake target of the next cycle, whatever the clock reads
NextTarget(target, clock) == target + sleep_delay

\* unsigned division as the machine does it; -1 stands for the trap of a
\* division by zero
UDiv(a, b) == IF b = 0 THEN -1 ELSE a \div b

\* line 1294
clk_scale == IF iostat_delay > 0 THEN <<1, iostat_delay>> ELSE <<0, 1>>

\* a header line before every report but the 1st, 26th, 51st, ...
Header_inverted(count) == (count % HeaderPeriod) # 0

\* lines 1207, 1263, 1297: the kind's header line is printed before this
\* report; count is the kind's static counter before its increment
Header(count) == (count % HeaderPeriod) = 0

\* the report blocks with the iostat block first
ReportOrder_io_first == <<"iostat", "vmstat", "thermalstat">>

\* lines 1203, 1245, 1293: the order of the three report blocks in the loop
\* body
ReportOrder == <<"vmstat", "thermalstat", "iostat">>

\* the report history of a source that reports at scheduled time sched
Fired(f, sched) ==
    [first |-> IF f.first = 0 THEN sched ELSE f.first,
     last  |-> sched,
     gap   |-> sched - f.last]

\* lines 1190-1311: the part of one cycle after the sleep, for the wake
\* target sched, run at time tnow
Cycle(sched, tnow, tabs, io_ok) ==
    LET vmDue == Due(vmstat_sleep, vmstat_delay)
        thDue == Due(thermalstat_sleep, thermalstat_delay)
        ioDue == Due(iostat_sleep, iostat_delay)
    IN  /\ vmstat_sleep' = Countdown(vmstat_sleep, vmstat_delay)
        /\ thermalstat_sleep' = Countdown(thermalstat_sleep, thermalstat_delay)
        /\ iostat_sleep' = Countdown(iostat_sleep, iostat_delay)
        /\ IF vmDue
           THEN /\ vmstat_count' = vmstat_count + 1
                /\ GetVmstat(tabs, tnow)
                /\ vmstat_out' =
                      [header |-> Header(vmstat_count),
                       rate |-> [f \in VMSTAT_RATE_FIELDS |->
                                    UDiv(vmstat'[f], vmstat_delay)]]
           ELSE /\ NoGetVmstat
                /\ UNCHANGED <<vmstat_count, vmstat_out>>
        /\ thermalstat_count' =
              IF thDue THEN thermalstat_count + 1 ELSE thermalstat_count
        /\ IF ioDue
           THEN /\ iostat_count' = iostat_count + 1
                /\ GetIostat(io_ok, tnow)
                /\ iostat_out' =
                      [header |-> Header(iostat_count),
                       clk_scale |-> clk_scale,
                       val |-> [f \in IOSTAT_LINE_FIELDS |->
                                   IF f \in IOSTAT_SECTOR_FIELDS
                                   THEN iostat'[f] \div 2 ELSE iostat'[f]]]
           ELSE /\ NoGetIostat
                /\ UNCHANGED <<iostat_count, iostat_out>>
        /\ fire' = [s \in Sources |->
                      IF \/ (s = "vmstat" /\ vmDue)
                         \/ (s = "thermalstat" /\ thDue)
                         \/ (s = "iostat" /\ ioDue)
                      THEN Fired(fire[s], sched) ELSE fire[s]]
        /\ wake_out' =
              LET due == [s \in Sources |->
                             CASE s = "vmstat" -> vmDue
                               [] s = "thermalstat" -> thDue
                               [] s = "iostat" -> ioDue]
                  cnt == [s \in Sources |->
                             CASE s = "vmstat" -> vmstat_count
                               [] s = "thermalstat" -> thermalstat_count
                               [] s = "iostat" -> iostat_count]
                  kinds == SelectSeq(ReportOrder, LAMBDA s : due[s])
              IN  [i \in 1..Len(kinds) |->
                      [kind |-> kinds[i], header |-> Header(cnt[kinds[i]])]]
        /\ now' = tnow

\* the outcomes of the reads of one cycle: a source that is not due is not
\* read
VmOutcomes ==
    IF Due(vmstat_sleep, vmstat_delay) THEN ReadOutcomes ELSE {Tables}
IoOutcomes ==
    IF Due(iostat_sleep, iostat_delay) THEN BOOLEAN ELSE {TRUE}

\* line 1166 false, line 1313: the loop ends and the worker exits
LoopExit ==
    /\ WorkerRuns /\ wpc = "loop"
    /\ ~keep_stressing
    /\ wpc' = "exited"
    /\ procs' = [procs EXCEPT ![wpid] = "zombie"]
    /\ ForkedFresh
    /\ vmstat_sleep' = 0 /\ thermalstat_sleep' = 0 /\ iostat_sleep' = 0
    /\ UNCHANGED <<auxVars, cfgVars, vmstat_pid, ppc, last_call, wpid>>

\* lines 1166-1186 with delta > 0, d seconds after the reads of the cycle
\* before: the worker goes to sleep until t1
LoopSleep ==
    /\ WorkerRuns /\ wpc = "loop"
    /\ keep_stressing
    /\ Cycles < MaxCycles
    /\ \E d \in 0..MaxLate :
          /\ NextTarget(t1, now + d) - (now + d) > 0
          /\ t1' = NextTarget(t1, now + d)
    /\ wpc' = "sleeping"
    /\ UNCHANGED <<auxVars, cfgVars, parentVars, wpid, keep_stressing, vmstat_sleep,
                   thermalstat_sleep, iostat_sleep, now, iostat_found,
                   vmstat, vmstat_prev, iostat, iostat_prev, vmstat_count,
                   thermalstat_count, iostat_count, vmstat_out, iostat_out,
                   wake_out, histVars>>

\* the sleep ends at the wake target and the rest of the cycle runs
Wake ==
    /\ WorkerRuns /\ wpc = "sleeping"
    /\ \E tabs \in VmOutcomes, io_ok \in IoOutcomes :
          Cycle(t1, t1, tabs, io_ok)
    /\ wpc' = "loop"
    /\ UNCHANGED <<auxVars, cfgVars, parentVars, wpid, keep_stressing, t1,
                   iostat_found>>

\* lines 1166-1184 with delta <= 0, d seconds after the reads of the cycle
\* before: the wake target has passed already, the cycle runs without a sleep
LoopNoSleep ==
    /\ WorkerRuns /\ wpc = "loop"
    /\ keep_stressing
    /\ Cycles < MaxCycles
    /\ \E tabs \in VmOutcomes, io_ok \in IoOutcomes, d \in 0..MaxLate :
          /\ ~(NextTarget(t1, now + d) - (now + d) > 0)
          /\ t1' = NextTarget(t1, now + d)
          /\ Cycle(NextTarget(t1, now + d), now + d, tabs, io_ok)
    /\ UNCHANGED <<auxVars, cfgVars, parentVars, wpid, wpc, keep_stressing,
                   iostat_found>>

\* a signal handler of the worker clears its keep-stressing flag
ClearFlag ==
    /\ WorkerRuns /\ wpc # "none"
    /\ keep_stressing
    /\ keep_stressing' = FALSE
    /\ UNCHANGED <<auxVars, cfgVars, parentVars, wpid, wpc, vmstat_sleep,
                   thermalstat_sleep, iostat_sleep, t1, now, iostat_found,
                   vmstat, vmstat_prev, iostat, iostat_prev, vmstat_count,
                   thermalstat_count, iostat_count, vmstat_out, iostat_out,
                   wake_out, histVars>>

\* a worker forked by an earlier start runs the same loop: it leaves it and
\* exits once its own flag is cleared, and runs on otherwise
OrphanExit ==
    /\ \E p \in Pids :
          /\ p # wpid
          /\ procs[p] = "running"
          /\ procs' = [procs EXCEPT ![p] = "zombie"]
    /\ UNCHANGED <<auxVars, cfgVars, vmstat_pid, ppc, last_call, workerVars, histVars>>

Next ==
    \/ SetStat
    \/ StartNoop
    \/ StartFork
    \/ StartForkFail
    \/ StopNoop
    \/ StopKill
    \/ StopWait
    \/ WorkerInit
    \/ LoopExit
    \/ LoopSleep
    \/ Wake
    \/ LoopNoSleep
    \/ ClearFlag
    \/ OrphanExit

Spec == Init /\ [][Next]_vars

\* the kernel ends waitpid() once the child is dead
FairSpec == Spec /\ WF_vars(StopWait)

(***************************************************************************)
(* A long run of one worker: the options are parsed, the worker is forked  *)
(* and runs its loop with every wake on time                               *)
(***************************************************************************)
\* the delays of the long runs
HeaderConfigs == { <<1, 2, 3>>, <<2, 1, 1>> }

\* lines 1166-1311 with delta > 0 and a sleep that ends at the wake target:
\* one whole cycle of the loop, one of the first maxc cycles, with the
\* vmstat read having one of the outcomes in `outcomes`
CycleOnTime(outcomes, maxc) ==
    /\ WorkerRuns /\ wpc = "loop"
    /\ keep_stressing
    /\ Cycles < maxc
    /\ NextTarget(t1, now) - now > 0
    /\ t1' = NextTarget(t1, now)
    /\ \E tabs \in (IF Due(vmstat_sleep, vmstat_delay)
                     THEN outcomes ELSE {Tables}),
          io_ok \in IoOutcomes :
          Cycle(NextTarget(t1, now), NextTarget(t1, now), tabs, io_ok)
    /\ UNCHANGED <<auxVars, cfgVars, parentVars, wpid, wpc, keep_stressing,
                   iostat_found>>

LongRunCycle == CycleOnTime(ReadOutcomes, MaxReports)

HeaderInit == InitWith({ LineOf(c) : c \in HeaderConfigs })

HeaderNext ==
    \/ SetStat
    \/ StartFork
    \/ WorkerInit
    \/ LongRunCycle

HeaderSpec == HeaderInit /\ [][HeaderNext]_vars

(***************************************************************************)
(* The reads of a worker whose tables fail one by one                      *)
(***************************************************************************)
\* the delays of these runs
ReadConfigs == { <<1, 0, 1>>, <<1, 0, 0>> }

\* the prologue, each of the three tables readable or not
ReadWorkerInit == WorkerInitWith(SUBSET Tables)

\* a cycle of the loop, each of the three tables readable or not
ReadCycle == CycleOnTime(SUBSET Tables, MaxReadCycles)

ReadInit == InitWith({ LineOf(c) : c \in ReadConfigs })

ReadNext ==
    \/ SetStat
    \/ StartFork
    \/ ReadWorkerInit
    \/ ReadCycle

ReadSpec == ReadInit /\ [][ReadNext]_vars

(***************************************************************************)
(* stress_iostat_iostat_name() (lines 421-460): from the device of the     *)
(* temporary path to the name of its statistics file                       *)
(***************************************************************************)
\* the characters of the device names that are followed
NameChars == {"n", "1", "2"}

\* the names of length 0..MaxNameLen
Names == UNION { [1..n -> NameChars] : n \in 0..MaxNameLen }

\* the ways a mount device is written: "name", "/name", "/dev/name"; "/dev"
\* stands for its four characters
DevPrefixes == { <<>>, <<"/">>, <<"/dev", "/">> }

\* the name cut down to its first n characters
Prefix(name, n) == SubSeq(name, 1, n)

\* a test that takes every character for a digit
isdigit_any(c) == TRUE

\* isdigit()
isdigit(c) == c \in {"0", "1", "2", "3", "4", "5", "6", "7", "8", "9"}

\* lines 439-442: the name behind a leading "/dev" and a leading "/"
SkipDev(name) ==
    LET d1 == IF name # <<>> /\ Head(name) = "/dev" THEN Tail(name) ELSE name
    IN  IF d1 # <<>> /\ Head(d1) = "/" THEN Tail(d1) ELSE d1

\* a call begins: the device of the temporary path and the statistics files
\* that exist are any of those followed
NameStart ==
    /\ name_pc = "start"
    /\ mount_dev \in {<<"NULL">>}
                     \cup { p \o b : p \in DevPrefixes, b \in Names }
    /\ sys_block \in SUBSET { Prefix(SkipDev(mount_dev), n) :
                                n \in 1..Len(SkipDev(mount_dev)) }
    /\ dev = <<>> /\ iostat_name = [null |-> TRUE, dev |-> <<>>]
    /\ tries = 0

\* lines 429-436: realpath or stress_find_mount_dev gave NULL
NameNoDevice ==
    /\ name_pc = "start" /\ mount_dev = <<"NULL">>
    /\ name_pc' = "done"
    /\ iostat_name' = [null |-> TRUE, dev |-> <<>>]
    /\ UNCHANGED <<notNameVars, mount_dev, sys_block, dev, tries>>

\* lines 438-444: the prefix is skipped, ptr is set to the last character
NameSkipPrefix ==
    /\ name_pc = "start" /\ mount_dev # <<"NULL">>
    /\ dev' = SkipDev(mount_dev)
    /\ name_pc' = "loop"
    /\ UNCHANGED <<notNameVars, mount_dev, sys_block, iostat_name, tries>>

\* lines 449-452: stat() of the candidate's file succeeds
NameFound ==
    /\ name_pc = "loop" /\ Len(dev) >= 1
    /\ dev \in sys_block
    /\ iostat_name' = [null |-> FALSE, dev |-> dev]
    /\ tries' = tries + 1
    /\ name_pc' = "done"
    /\ UNCHANGED <<notNameVars, mount_dev, sys_block, dev>>

\* lines 453-456: the last character is a digit and is cut off
NameStrip ==
    /\ name_pc = "loop" /\ Len(dev) >= 1
    /\ dev \notin sys_block
    /\ isdigit(dev[Len(dev)])
    /\ dev' = Prefix(dev, Len(dev) - 1)
    /\ tries' = tries + 1
    /\ UNCHANGED <<notNameVars, name_pc, mount_dev, sys_block, iostat_name>>

\* line 454 break, or line 449 false, then line 459
NameGiveUp ==
    /\ name_pc = "loop"
    /\ \/ /\ Len(dev) = 0
          /\ tries' = tries
       \/ /\ Len(dev) >= 1
          /\ dev \notin sys_block
          /\ ~isdigit(dev[Len(dev)])
          /\ tries' = tries + 1
    /\ iostat_name' = [null |-> TRUE, dev |-> <<>>]
    /\ name_pc' = "done"
    /\ UNCHANGED <<notNameVars, mount_dev, sys_block, dev>>

NameInit == SamplerInit({<<>>}) /\ NameStart /\ SegvIdle /\ HerdIdle
               /\ FsizeStart /\ MoreIdle

NameNext ==
    \/ NameNoDevice
    \/ NameSkipPrefix
    \/ NameFound
    \/ NameStrip
    \/ NameGiveUp

NameSpec == NameInit /\ [][NameNext]_vars

(***************************************************************************)
(* keep_stressing(args), declared in stress-ng.h                           *)
(***************************************************************************)
\* the stressor goes on while the keep-stressing flag is set and, when a
\* limit of bogo operations is configured, its bogo counter is below it
keep_stressing_args(flag, counter, max_ops) ==
    flag /\ ((max_ops = 0) \/ (counter < max_ops))

(***************************************************************************)
(* stress_vm_segv() (src/stress-vm-segv.c lines 68-172)                    *)
(***************************************************************************)
\* what waitpid() can give for a child: it failed (ret < 0), the child has
\* stopped by a signal or, with PTRACE_O_TRACESYSGOOD, at a system call
\* (signal number with bit 0x80), it has exited, or a signal has ended it
WaitStatuses ==
    {"fail", "stop_SIGSTOP", "stop_syscall", "stop_SIGSEGV", "stop_other",
     "exited", "term_SIGSEGV", "term_other"}

\* the statuses after which the child is gone and reaped
Reaping == {"exited", "term_SIGSEGV", "term_other"}

\* what a waitpid() of the parent can give: a child that was reaped before
\* gives ECHILD; a child that is not traced is not reported when it stops
WaitOutcomes ==
    IF segv_child = "none" THEN {"fail"}
    ELSE IF have_ptrace THEN WaitStatuses
    ELSE {"fail"} \cup Reaping

\* WIFSTOPPED(status) and (WSTOPSIG(status) & 0x7f) == SIGSEGV
StoppedBySegv(st) == st = "stop_SIGSEGV"

\* line 122: WIFEXITED(status)
CountsExit(st) == st = "exited"

\* WTERMSIG(status) == SIGSEGV, line 98
TermBySegv(st) == st = "term_SIGSEGV"

\* inc_counter(args)
SegvInc ==
    /\ segv_counter' = segv_counter + 1
    /\ segv_incs' = segv_incs + 1

SegvNoInc == UNCHANGED <<segv_counter, segv_incs>>

\* the child after a waitpid() that gave st
AfterWait(st) == IF st \in Reaping THEN "none" ELSE segv_child

\* stress_vm_segv is called: the build, the limit of bogo operations
SegvStart ==
    /\ have_ptrace \in BOOLEAN /\ segv_max_ops \in {0, 1}
    /\ segv_pc = "fork" /\ segv_child = "none"
    /\ segv_status = "none" /\ segv_counter = 0 /\ segv_flag = TRUE
    /\ test_valid = FALSE /\ segv_fail = FALSE
    /\ segv_forks = 0 /\ segv_incs = 0

\* line 79, pid > 0
SegvFork ==
    /\ segv_pc = "fork"
    /\ segv_forks < MaxSegvForks
    /\ segv_child' = "alive"
    /\ segv_forks' = segv_forks + 1
    /\ segv_incs' = 0
    /\ segv_pc' = "wait1"
    /\ UNCHANGED <<notSegvVars, have_ptrace, segv_status, segv_counter,
                   segv_flag, segv_max_ops, test_valid, segv_fail>>

\* lines 80-87, pid < 0 and no retry (a retry is a step back to line 79)
SegvForkFail ==
    /\ segv_pc = "fork"
    /\ segv_pc' = IF ~keep_stressing_args(segv_flag, segv_counter, segv_max_ops)
                  THEN "finish" ELSE "error"
    /\ UNCHANGED <<notSegvVars, have_ptrace, segv_child, segv_status,
                   segv_counter, segv_flag, segv_max_ops, test_valid,
                   segv_fail, segv_forks, segv_incs>>

\* lines 92-101: the first waitpid() and, in a build without ptrace, the
\* test of the signal that ended the child
SegvWait1 ==
    /\ segv_pc = "wait1"
    /\ \E st \in WaitOutcomes :
          /\ segv_status' = st
          /\ segv_child' = AfterWait(st)
          /\ IF st = "fail"
             THEN /\ segv_pc' = "kill_child"
                  /\ SegvNoInc
                  /\ UNCHANGED test_valid
             ELSE /\ test_valid' = TRUE
                  /\ IF have_ptrace
                     THEN /\ segv_pc' = "trace"
                          /\ SegvNoInc
                     ELSE IF TermBySegv(st)
                     THEN /\ segv_pc' = "while"
                          /\ SegvInc
                     ELSE /\ segv_pc' = "kill_child"
                          /\ SegvNoInc
    /\ UNCHANGED <<notSegvVars, have_ptrace, segv_flag, segv_max_ops,
                   segv_fail, segv_forks>>

\* line 106: the condition of the tracing loop
SegvTrace ==
    /\ segv_pc = "trace"
    /\ segv_pc' = IF keep_stressing_args(segv_flag, segv_counter, segv_max_ops)
                  THEN "wait2" ELSE "kill_child"
    /\ UNCHANGED <<notSegvVars, have_ptrace, segv_child, segv_status,
                   segv_counter, segv_flag, segv_max_ops, test_valid,
                   segv_fail, segv_forks, segv_incs>>

\* lines 107-125: the child is let run to its next stop and waited for
SegvWait2 ==
    /\ segv_pc = "wait2"
    /\ \E st \in WaitOutcomes :
          /\ segv_status' = st
          /\ segv_child' = AfterWait(st)
          /\ IF st = "fail"
             THEN /\ segv_pc' = "kill_child"
                  /\ SegvNoInc
             ELSE IF StoppedBySegv(st)
             THEN /\ segv_pc' = "kill_child"
                  /\ SegvInc
             ELSE IF st = "stop_syscall"
             THEN /\ segv_pc' = "trace"
                  /\ SegvNoInc
             ELSE IF CountsExit(st)
             THEN /\ segv_pc' = "kill_child"
                  /\ SegvInc
             ELSE /\ segv_pc' = "trace"
                  /\ SegvNoInc
    /\ UNCHANGED <<notSegvVars, have_ptrace, segv_flag, segv_max_ops,
                   test_valid, segv_fail, segv_forks>>

\* lines 128-131 without the kill and the waitpid(): the child is left
SegvKillChild_no_reap ==
    /\ segv_pc = "kill_child"
    /\ segv_child' = segv_child
    /\ segv_pc' = "while"
    /\ UNCHANGED <<notSegvVars, have_ptrace, segv_status, segv_counter,
                   segv_flag, segv_max_ops, test_valid, segv_fail,
                   segv_forks, segv_incs>>

\* lines 128-131: the child is killed and reaped
SegvKillChild ==
    /\ segv_pc = "kill_child"
    /\ segv_child' = "none"
    /\ segv_pc' = "while"
    /\ UNCHANGED <<notSegvVars, have_ptrace, segv_status, segv_counter,
                   segv_flag, segv_max_ops, test_valid, segv_fail,
                   segv_forks, segv_incs>>

\* line 163: the condition of the outer loop
SegvWhile ==
    /\ segv_pc = "while"
    /\ segv_pc' = IF keep_stressing_args(segv_flag, segv_counter, segv_max_ops)
                  THEN "fork" ELSE "finish"
    /\ UNCHANGED <<notSegvVars, have_ptrace, segv_child, segv_status,
                   segv_counter, segv_flag, segv_max_ops, test_valid,
                   segv_fail, segv_forks, segv_incs>>

\* lines 165-171
SegvFinish ==
    /\ segv_pc = "finish"
    /\ segv_fail' = (test_valid /\ (segv_counter = 0))
    /\ segv_pc' = "done"
    /\ UNCHANGED <<notSegvVars, have_ptrace, segv_child, segv_status,
                   segv_counter, segv_flag, segv_max_ops, test_valid,
                   segv_forks, segv_incs>>

\* the run time is over or a signal has come: the flag is cleared
SegvFlagClear ==
    /\ segv_pc \notin {"done", "error"}
    /\ segv_flag
    /\ segv_flag' = FALSE
    /\ UNCHANGED <<notSegvVars, have_ptrace, segv_pc, segv_child, segv_status,
                   segv_counter, segv_max_ops, test_valid, segv_fail,
                   segv_forks, segv_incs>>

SegvInit == SamplerInit({<<>>}) /\ NameIdle /\ SegvStart /\ HerdIdle
               /\ FsizeStart /\ MoreIdle

SegvNext ==
    \/ SegvFork
    \/ SegvForkFail
    \/ SegvWait1
    \/ SegvTrace
    \/ SegvWait2
    \/ SegvKillChild
    \/ SegvWhile
    \/ SegvFinish
    \/ SegvFlagClear

SegvSpec == SegvInit /\ [][SegvNext]_vars

(***************************************************************************)
(* stress_pipeherd() (src/stress-pipeherd.c lines 45-68 and 74-203)        *)
(***************************************************************************)
\* lines 92-134: the pipe is made, the token 0 is written, the parent is
\* about to fork its children
HerdStart ==
    /\ herd_pc = [p \in Herd |-> IF p = 0 THEN "forking" ELSE "unborn"]
    /\ herd_counter = [p \in Herd |-> 0]
    /\ pipe_fd = <<0>> /\ herd_bogo = 0 /\ herd_flag = TRUE
    /\ herd_max_ops \in {0, 1, 2} /\ herd_i = 0

\* keep_stressing(args) as the loops of this stressor call it
HerdKeeps == keep_stressing_args(herd_flag, herd_bogo, herd_max_ops)

\* lines 134-149, fork() > 0: the child begins stress_pipeherd_read_write
HerdFork ==
    /\ herd_pc[0] = "forking"
    /\ HerdKeeps /\ herd_i < MaxHerd
    /\ herd_pc' = [herd_pc EXCEPT ![herd_i + 1] = "loop"]
    /\ herd_i' = herd_i + 1
    /\ UNCHANGED <<notHerdVars, herd_counter, pipe_fd, herd_bogo, herd_flag,
                   herd_max_ops>>

\* lines 145-146, fork() < 0
HerdForkFail ==
    /\ herd_pc[0] = "forking"
    /\ HerdKeeps /\ herd_i < MaxHerd
    /\ herd_i' = herd_i + 1
    /\ UNCHANGED <<notHerdVars, herd_pc, herd_counter, pipe_fd, herd_bogo,
                   herd_flag, herd_max_ops>>

\* line 134 false, line 152: the parent joins the herd
HerdForked ==
    /\ herd_pc[0] = "forking"
    /\ ~(HerdKeeps /\ herd_i < MaxHerd)
    /\ herd_pc' = [herd_pc EXCEPT ![0] = "loop"]
    /\ UNCHANGED <<notHerdVars, herd_counter, pipe_fd, herd_bogo, herd_flag,
                   herd_max_ops, herd_i>>

\* line 47: the condition of the loop; a child that leaves the loop exits
\* (lines 142-144), the parent goes on to line 153
HerdCheck(p) ==
    /\ herd_pc[p] = "loop"
    /\ herd_pc' = [herd_pc EXCEPT ![p] =
                      IF HerdKeeps THEN "read"
                      ELSE IF p = 0 THEN "final_read" ELSE "exited"]
    /\ UNCHANGED <<notHerdVars, herd_counter, pipe_fd, herd_bogo, herd_flag,
                   herd_max_ops, herd_i>>

\* a read that leaves what it has read in the pipe
HerdRead_peek(p) ==
    /\ herd_pc[p] = "read"
    /\ pipe_fd # <<>>
    /\ Head(pipe_fd) < MaxToken
    /\ herd_counter' = [herd_counter EXCEPT ![p] = Head(pipe_fd)]
    /\ pipe_fd' = pipe_fd
    /\ herd_pc' = [herd_pc EXCEPT ![p] = "write"]
    /\ UNCHANGED <<notHerdVars, herd_bogo, herd_flag, herd_max_ops, herd_i>>

\* line 51: read() takes the token out of the pipe
HerdRead(p) ==
    /\ herd_pc[p] = "read"
    /\ pipe_fd # <<>>
    /\ Head(pipe_fd) < MaxToken
    /\ herd_counter' = [herd_counter EXCEPT ![p] = Head(pipe_fd)]
    /\ pipe_fd' = Tail(pipe_fd)
    /\ herd_pc' = [herd_pc EXCEPT ![p] = "write"]
    /\ UNCHANGED <<notHerdVars, herd_bogo, herd_flag, herd_max_ops, herd_i>>

\* lines 52-54: read() is interrupted by the signal that cleared the flag
HerdReadIntr(p) ==
    /\ herd_pc[p] = "read"
    /\ ~herd_flag
    /\ herd_pc' = [herd_pc EXCEPT ![p] =
                      IF p = 0 THEN "final_read" ELSE "exited"]
    /\ UNCHANGED <<notHerdVars, herd_counter, pipe_fd, herd_bogo, herd_flag,
                   herd_max_ops, herd_i>>

\* lines 57-58: the token is incremented and written back
HerdWrite(p) ==
    /\ herd_pc[p] = "write"
    /\ pipe_fd' = Append(pipe_fd, herd_counter[p] + 1)
    /\ herd_counter' = [herd_counter EXCEPT ![p] = herd_counter[p] + 1]
    /\ herd_pc' = [herd_pc EXCEPT ![p] = "loop"]
    /\ UNCHANGED <<notHerdVars, herd_bogo, herd_flag, herd_max_ops, herd_i>>

\* lines 153-155: the parent reads the token and makes it the bogo counter
HerdFinalRead ==
    /\ herd_pc[0] = "final_read"
    /\ pipe_fd # <<>>
    /\ herd_counter' = [herd_counter EXCEPT ![0] = Head(pipe_fd)]
    /\ herd_bogo' = Head(pipe_fd)
    /\ pipe_fd' = Tail(pipe_fd)
    /\ herd_pc' = [herd_pc EXCEPT ![0] = "reap"]
    /\ UNCHANGED <<notHerdVars, herd_flag, herd_max_ops, herd_i>>

\* lines 166-176: the children are killed and reaped
HerdReap ==
    /\ herd_pc[0] = "reap"
    /\ herd_pc' = [p \in Herd |->
                      IF p = 0 THEN "done"
                      ELSE IF herd_pc[p] = "unborn" THEN "unborn"
                      ELSE "exited"]
    /\ UNCHANGED <<notHerdVars, herd_counter, pipe_fd, herd_bogo, herd_flag,
                   herd_max_ops, herd_i>>

\* the run time is over: the flag is cleared in every process
HerdFlagClear ==
    /\ herd_pc[0] # "done"
    /\ herd_flag
    /\ herd_flag' = FALSE
    /\ UNCHANGED <<notHerdVars, herd_pc, herd_counter, pipe_fd, herd_bogo,
                   herd_max_ops, herd_i>>

HerdInit == SamplerInit({<<>>}) /\ NameIdle /\ SegvIdle /\ HerdStart
               /\ FsizeStart /\ MoreIdle

HerdNext ==
    \/ HerdFork
    \/ HerdForkFail
    \/ HerdForked
    \/ \E p \in Herd : HerdCheck(p)
    \/ \E p \in Herd : HerdRead(p)
    \/ \E p \in Herd : HerdReadIntr(p)
    \/ \E p \in Herd : HerdWrite(p)
    \/ HerdFinalRead
    \/ HerdReap
    \/ HerdFlagClear

HerdSpec == HerdInit /\ [][HerdNext]_vars

(***************************************************************************)
(* stress_fsize_reported() (src/stress-sendfile.c lines 267-292)           *)
(***************************************************************************)
FSIZE_TYPE_FALLOC == 1
FSIZE_TYPE_SIGXFSZ == 2

\* a table of half the size
SIZEOF_ARRAY_reported_half == 8 * 8 * 2

\* line 275: SIZEOF_ARRAY(reported) = sizeof(off_t) * 8 * 4, off_t of 8 bytes
SIZEOF_ARRAY_reported == 8 * 8 * 4

\* the k-th distinct pair the callers ask about (lines 344 and 355): the
\* offsets 1, 2, 3, ..., each with the two types
PairOf(k) ==
    <<(k \div 2) + 1,
      IF k % 2 = 0 THEN FSIZE_TYPE_FALLOC ELSE FSIZE_TYPE_SIGXFSZ>>

\* lines 267-292: one call; the scan of lines 279-284 finds the pair among
\* the entries 0..max-1 or not, lines 285-290 store it when there is room
stress_fsize_reported(offset, type) ==
    LET hit == \E i \in 1..Len(reported) :
                  reported[i] = [offset |-> offset, type |-> type]
    IN  /\ fsize_ret' = hit
        /\ reported' =
              IF ~hit /\ (Len(reported) < SIZEOF_ARRAY_reported)
              THEN Append(reported, [offset |-> offset, type |-> type])
              ELSE reported
        /\ fsize_arg' = <<offset, type>>
        /\ fsize_new' = (\A i \in 1..Len(fsize_order) :
                            fsize_order[i] # <<offset, type>>)
        /\ fsize_order' =
              IF \A i \in 1..Len(fsize_order) :
                    fsize_order[i] # <<offset, type>>
              THEN Append(fsize_order, <<offset, type>>)
              ELSE fsize_order

\* a call for a pair that no call was made for before
FsizeAskNew ==
    /\ Len(fsize_order) < MaxPairs
    /\ stress_fsize_reported(PairOf(Len(fsize_order))[1],
                             PairOf(Len(fsize_order))[2])
    /\ UNCHANGED notFsizeVars

\* a call for a pair asked about before: the first pair, or the one that
\* was new last
FsizeAskAgain ==
    /\ Len(fsize_order) > 0
    /\ \E k \in {0, Len(fsize_order) - 1} :
          stress_fsize_reported(PairOf(k)[1], PairOf(k)[2])
    /\ UNCHANGED notFsizeVars

FsizeInit ==
    SamplerInit({<<>>}) /\ NameIdle /\ SegvIdle /\ HerdIdle /\ FsizeStart
    /\ MoreIdle

FsizeNext ==
    \/ FsizeAskNew
    \/ FsizeAskAgain

FsizeSpec == FsizeInit /\ [][FsizeNext]_vars

(***************************************************************************)
(* The swap lines of /proc/meminfo in stress_read_vmstat()                 *)
(* (src/stress-ping-sock.c lines 676-714)                                  *)
(***************************************************************************)
\* everything that is followed in the sections above, at rest
OldIdle ==
    SamplerInit({<<>>}) /\ NameIdle /\ SegvIdle /\ HerdIdle /\ FsizeStart

\* the swap lines a memory table can have: the kernel never reports more
\* free swap than swap
MemInfos ==
    { [SwapTotal |-> a, SwapFree |-> b, SwapUsed |-> u] :
         a \in 0..MaxSwap, b \in 0..MaxSwap, u \in 0..1 }

\* lines 692-714 for the swap fields of a snapshot that the memset of line
\* 943 has cleared
SwapRead ==
    /\ swap_pc = "start"
    /\ swap' = [swap_total |-> meminfo.SwapTotal,
                swap_free  |-> meminfo.SwapFree,
                swap_used  |-> SwapUsed(meminfo.SwapTotal, meminfo.SwapFree,
                                        meminfo.SwapUsed)]
    /\ swap_pc' = "done"
    /\ UNCHANGED <<meminfo, notSwapVars>>

SwapInit ==
    /\ OldIdle /\ TscIdle /\ SockIdle /\ SendIdle
    /\ meminfo \in { m \in MemInfos : m.SwapFree <= m.SwapTotal }
    /\ swap_pc = "start"
    /\ swap = [swap_total |-> 0, swap_free |-> 0, swap_used |-> 0]

SwapNext == SwapRead

SwapSpec == SwapInit /\ [][SwapNext]_vars

(***************************************************************************)
(* stress_tsc_check() (src/stress-sendfile.c lines 746-760) and the loop   *)
(* that calls it (lines 845-847, 1006-1013)                                *)
(***************************************************************************)
\* the values of a counter word
Words == 0..(2^TscBits - 1)

\* a ^ b on words of n bits
RECURSIVE XorBits(_, _, _)
XorBits(a, b, n) ==
    IF n = 0 THEN 0
    ELSE ((a + b) % 2) + 2 * XorBits(a \div 2, b \div 2, n - 1)

\* a check that takes no decrease for a wraparound
stress_tsc_check_no_wrap(new, old) == ~(new > old)

\* lines 746-760: TRUE when pr_fail is called; the shift by 63 of line 755
\* is the shift that leaves the top bit of the word
stress_tsc_check(new, old) ==
    IF new > old THEN FALSE
    ELSE IF (XorBits(old, new, TscBits) \div 2^(TscBits - 1)) = 1 THEN FALSE
    ELSE TRUE

\* line 845: tsc = rdtsc()
TscRead ==
    /\ tsc_pc = "read"
    /\ tsc' \in Words
    /\ tsc_pc' = "check"
    /\ UNCHANGED <<old_tsc, tsc_fail, notTscVars>>

\* line 846
TscCheck ==
    /\ tsc_pc = "check"
    /\ tsc_fail' = stress_tsc_check(tsc, old_tsc)
    /\ tsc_pc' = "assign"
    /\ UNCHANGED <<tsc, old_tsc, notTscVars>>

\* line 847: old_tsc = tsc
TscAssign ==
    /\ tsc_pc = "assign"
    /\ old_tsc' = tsc
    /\ tsc_pc' = "read"
    /\ UNCHANGED <<tsc, tsc_fail, notTscVars>>

\* line 1006: old_tsc = rdtsc()
TscInit ==
    /\ OldIdle /\ SwapIdle /\ SockIdle /\ SendIdle
    /\ tsc_pc = "read" /\ old_tsc \in Words /\ tsc = 0 /\ tsc_fail = FALSE

TscNext ==
    \/ TscRead
    \/ TscCheck
    \/ TscAssign

TscSpec == TscInit /\ [][TscNext]_vars

(***************************************************************************)
(* stress_sockabuse() (src/stress-sockabuse.c lines 176-430): the parent   *)
(* reserves a port, forks the client and serves it; the client connects,   *)
(* reads one message and closes, again and again, and sends SIGALRM to the *)
(* parent when it is done                                                  *)
(***************************************************************************)
\* line 303: accepts per listening socket
SOCK_ACCEPTS == 16

\* lines 191 and 213: the first retry delay and its step, in microseconds
DELAY_STEP == 10000

\* line 214: the longest retry delay
DELAY_MAX == 250000

\* keep_stressing(args) in the parent and in the client
SrvKeeps == keep_stressing_args(sock_flag, sock_counter, sock_max_ops)
ClKeeps == keep_stressing_args(cl_flag, sock_counter, sock_max_ops)

\* lines 383-386: the stressor begins, with the run time over already or not
SockStart ==
    /\ sock_pc = "reserve" /\ port = "free" /\ sock_flag \in BOOLEAN
    /\ sock_counter = 0 /\ sock_max_ops \in 1..MaxSockOps /\ srv_i = 0
    /\ listening = FALSE /\ conn = "none" /\ sigalrm = FALSE
    /\ cl_pc = "unborn" /\ cl_fd = FALSE /\ cl_flag = FALSE /\ cl_delay = 0

\* lines 386-391: the port cannot be reserved
SockReserveFail ==
    /\ sock_pc = "reserve"
    /\ sock_pc' = "returned"
    /\ UNCHANGED <<notSockVars, port, sock_flag, sock_counter, sock_max_ops,
                   srv_i, listening, conn, sigalrm, cl_pc, cl_fd, cl_flag,
                   cl_delay>>

\* lines 386-395: the port is reserved
SockReserve ==
    /\ sock_pc = "reserve"
    /\ port' = "reserved"
    /\ sock_pc' = "sighandler"
    /\ UNCHANGED <<notSockVars, sock_flag, sock_counter, sock_max_ops, srv_i,
                   listening, conn, sigalrm, cl_pc, cl_fd, cl_flag, cl_delay>>

\* lines 397-398: stress_sighandler fails
SockSighandlerFail ==
    /\ sock_pc = "sighandler"
    /\ sock_pc' = "returned"
    /\ UNCHANGED <<notSockVars, port, sock_flag, sock_counter, sock_max_ops,
                   srv_i, listening, conn, sigalrm, cl_pc, cl_fd, cl_flag,
                   cl_delay>>

\* lines 397-400: the SIGPIPE handler is installed
SockSighandler ==
    /\ sock_pc = "sighandler"
    /\ sock_pc' = "fork"
    /\ UNCHANGED <<notSockVars, port, sock_flag, sock_counter, sock_max_ops,
                   srv_i, listening, conn, sigalrm, cl_pc, cl_fd, cl_flag,
                   cl_delay>>

\* lines 402-412: fork() fails with an error that stress_redo_fork does not
\* retry
SockForkFail ==
    /\ sock_pc = "fork"
    /\ sock_pc' = IF ~SrvKeeps THEN "finish" ELSE "returned"
    /\ UNCHANGED <<notSockVars, port, sock_flag, sock_counter, sock_max_ops,
                   srv_i, listening, conn, sigalrm, cl_pc, cl_fd, cl_flag,
                   cl_delay>>

\* lines 402, 413-414, 421-423 and 186-191: the child begins
\* stress_sockabuse_client with a copy of the flag, the parent begins
\* stress_sockabuse_server
SockFork ==
    /\ sock_pc = "fork"
    /\ sock_pc' = "sig_stop"
    /\ cl_pc' = "retry" /\ cl_flag' = sock_flag /\ cl_delay' = DELAY_STEP
    /\ UNCHANGED <<notSockVars, port, sock_flag, sock_counter, sock_max_ops,
                   srv_i, listening, conn, sigalrm, cl_fd>>

\* lines 254-257: stress_sig_stop_stressing fails
SrvSigStopFail ==
    /\ sock_pc = "sig_stop"
    /\ sock_pc' = "die"
    /\ UNCHANGED <<notSockVars, port, sock_flag, sock_counter, sock_max_ops,
                   srv_i, listening, conn, sigalrm, cl_pc, cl_fd, cl_flag,
                   cl_delay>>

\* lines 254-260: the handler that stops the stressor on SIGALRM is installed
SrvSigStop ==
    /\ sock_pc = "sig_stop"
    /\ sock_pc' = "socket"
    /\ UNCHANGED <<notSockVars, port, sock_flag, sock_counter, sock_max_ops,
                   srv_i, listening, conn, sigalrm, cl_pc, cl_fd, cl_flag,
                   cl_delay>>

\* lines 263-301 with a call that fails: the socket, if there is one, is
\* closed and the continue goes to the test of line 350
SrvSocketFail ==
    /\ sock_pc = "socket"
    /\ sock_pc' = "while"
    /\ UNCHANGED <<notSockVars, port, sock_flag, sock_counter, sock_max_ops,
                   srv_i, listening, conn, sigalrm, cl_pc, cl_fd, cl_flag,
                   cl_delay>>

\* lines 263-303: socket, setsockopt, bind and listen succeed
SrvListen ==
    /\ sock_pc = "socket"
    /\ listening' = TRUE
    /\ srv_i' = 0
    /\ sock_pc' = "check"
    /\ UNCHANGED <<notSockVars, port, sock_flag, sock_counter, sock_max_ops,
                   conn, sigalrm, cl_pc, cl_fd, cl_flag, cl_delay>>

\* lines 303-307: the test of the for loop and the keep_stressing test
SrvCheck ==
    /\ sock_pc = "check"
    /\ sock_pc' = IF (srv_i < SOCK_ACCEPTS) /\ SrvKeeps
                  THEN "accept" ELSE "after_for"
    /\ UNCHANGED <<notSockVars, port, sock_flag, sock_counter, sock_max_ops,
                   srv_i, listening, conn, sigalrm, cl_pc, cl_fd, cl_flag,
                   cl_delay>>

\* line 309: accept() is called; it returns a connection that is queued and
\* blocks when there is none
SrvAccept ==
    /\ sock_pc = "accept"
    /\ IF conn = "queued"
       THEN conn' = "accepted" /\ sock_pc' = "serve"
       ELSE conn' = conn /\ sock_pc' = "blocked"
    /\ UNCHANGED <<notSockVars, port, sock_flag, sock_counter, sock_max_ops,
                   srv_i, listening, sigalrm, cl_pc, cl_fd, cl_flag,
                   cl_delay>>

\* line 309: a connection arrives for the accept() that waits
SrvUnblock ==
    /\ sock_pc = "blocked"
    /\ conn = "queued"
    /\ conn' = "accepted"
    /\ sock_pc' = "serve"
    /\ UNCHANGED <<notSockVars, port, sock_flag, sock_counter, sock_max_ops,
                   srv_i, listening, sigalrm, cl_pc, cl_fd, cl_flag,
                   cl_delay>>

\* the handler installed at line 254 runs: it clears the flag; an accept()
\* that waits returns -1 with EINTR and the for loop goes on to its next
\* round (line 303, i++)
SrvSignal ==
    /\ sigalrm
    /\ sock_pc \in {"socket", "check", "accept", "blocked", "serve",
                    "after_for", "while"}
    /\ sigalrm' = FALSE
    /\ sock_flag' = FALSE
    /\ IF sock_pc = "blocked"
       THEN sock_pc' = "check" /\ srv_i' = srv_i + 1
       ELSE UNCHANGED <<sock_pc, srv_i>>
    /\ UNCHANGED <<notSockVars, port, sock_counter, sock_max_ops, listening,
                   conn, cl_pc, cl_fd, cl_flag, cl_delay>>

\* lines 310-345: the connection is served. ok: the message is sent (lines
\* 332, 341-344); not ok: getsockname, getsockopt or send fails and the loop
\* is left (lines 317-339); a send to a client that has gone can raise
\* SIGPIPE, whose handler (lines 366-371) clears the flag
SrvServe ==
    /\ sock_pc = "serve"
    /\ \E ok \in BOOLEAN, sigpipe \in BOOLEAN :
          /\ sigpipe => (~ok /\ cl_pc # "recv")
          /\ sock_flag' = IF sigpipe THEN FALSE ELSE sock_flag
          /\ srv_i' = IF ok THEN srv_i + 1 ELSE srv_i
          /\ sock_pc' = IF ok THEN "check" ELSE "after_for"
    /\ conn' = "over"
    /\ UNCHANGED <<notSockVars, port, sock_counter, sock_max_ops, listening,
                   sigalrm, cl_pc, cl_fd, cl_flag, cl_delay>>

\* lines 347-349: the bogo counter goes up and the listening socket is
\* closed; a connection still in its backlog is reset
SrvAfterFor ==
    /\ sock_pc = "after_for"
    /\ sock_counter' = sock_counter + 1
    /\ listening' = FALSE
    /\ conn' = IF conn = "queued" THEN "over" ELSE conn
    /\ sock_pc' = "while"
    /\ UNCHANGED <<notSockVars, port, sock_flag, sock_max_ops, srv_i, sigalrm,
                   cl_pc, cl_fd, cl_flag, cl_delay>>

\* line 350
SrvWhile ==
    /\ sock_pc = "while"
    /\ sock_pc' = IF SrvKeeps THEN "socket" ELSE "die"
    /\ UNCHANGED <<notSockVars, port, sock_flag, sock_counter, sock_max_ops,
                   srv_i, listening, conn, sigalrm, cl_pc, cl_fd, cl_flag,
                   cl_delay>>

\* lines 353-363 and 422-425: the client is killed and reaped, the server
\* returns
SrvDie ==
    /\ sock_pc = "die"
    /\ cl_pc' = "reaped"
    /\ cl_fd' = FALSE
    /\ sock_pc' = "finish"
    /\ UNCHANGED <<notSockVars, port, sock_flag, sock_counter, sock_max_ops,
                   srv_i, listening, conn, sigalrm, cl_flag, cl_delay>>

\* lines 425-429: the port is released
SockFinish ==
    /\ sock_pc = "finish"
    /\ port' = "released"
    /\ sock_pc' = "returned"
    /\ UNCHANGED <<notSockVars, sock_flag, sock_counter, sock_max_ops, srv_i,
                   listening, conn, sigalrm, cl_pc, cl_fd, cl_flag, cl_delay>>

\* lines 193-195: the flag is tested before every attempt
ClRetry ==
    /\ cl_pc = "retry"
    /\ cl_pc' = IF ~cl_flag THEN "signal" ELSE "socket"
    /\ UNCHANGED <<notSockVars, sock_pc, port, sock_flag, sock_counter,
                   sock_max_ops, srv_i, listening, conn, sigalrm, cl_fd,
                   cl_flag, cl_delay>>

\* lines 196-200: socket() fails and the client returns
ClSocketFail ==
    /\ cl_pc = "socket"
    /\ cl_pc' = "signal"
    /\ UNCHANGED <<notSockVars, sock_pc, port, sock_flag, sock_counter,
                   sock_max_ops, srv_i, listening, conn, sigalrm, cl_fd,
                   cl_flag, cl_delay>>

\* line 196: socket() gives fd
ClSocket ==
    /\ cl_pc = "socket"
    /\ cl_fd' = TRUE
    /\ cl_pc' = "sockaddr"
    /\ UNCHANGED <<notSockVars, sock_pc, port, sock_flag, sock_counter,
                   sock_max_ops, srv_i, listening, conn, sigalrm, cl_flag,
                   cl_delay>>

\* lines 202-206: stress_set_sockaddr fails and the client returns
ClSockaddrFail ==
    /\ cl_pc = "sockaddr"
    /\ cl_pc' = "signal"
    /\ UNCHANGED <<notSockVars, sock_pc, port, sock_flag, sock_counter,
                   sock_max_ops, srv_i, listening, conn, sigalrm, cl_fd,
                   cl_flag, cl_delay>>

\* lines 202-204: the address is set
ClSockaddr ==
    /\ cl_pc = "sockaddr"
    /\ cl_pc' = "connect"
    /\ UNCHANGED <<notSockVars, sock_pc, port, sock_flag, sock_counter,
                   sock_max_ops, srv_i, listening, conn, sigalrm, cl_fd,
                   cl_flag, cl_delay>>

\* lines 207-217: connect() reaches the listening socket, or fails: the
\* socket is closed and the client sleeps for delay, which then grows
ClConnect ==
    /\ cl_pc = "connect"
    /\ IF listening /\ conn \in {"none", "over"}
       THEN /\ conn' = "queued"
            /\ cl_pc' = "recv"
            /\ UNCHANGED <<cl_fd, cl_delay>>
       ELSE /\ cl_fd' = FALSE
            /\ cl_delay' = IF cl_delay + DELAY_STEP > DELAY_MAX
                           THEN DELAY_MAX ELSE cl_delay + DELAY_STEP
            /\ cl_pc' = "retry"
            /\ conn' = conn
    /\ UNCHANGED <<notSockVars, sock_pc, port, sock_flag, sock_counter,
                   sock_max_ops, srv_i, listening, sigalrm, cl_flag>>

\* lines 219-224: recv() returns what the server has sent, or an error when
\* the server has closed or reset the connection
ClRecv ==
    /\ cl_pc = "recv"
    /\ conn = "over"
    /\ cl_pc' = "close"
    /\ UNCHANGED <<notSockVars, sock_pc, port, sock_flag, sock_counter,
                   sock_max_ops, srv_i, listening, conn, sigalrm, cl_fd,
                   cl_flag, cl_delay>>

\* lines 219-221: recv() is interrupted by the signal that cleared the flag
ClRecvIntr ==
    /\ cl_pc = "recv"
    /\ ~cl_flag
    /\ cl_pc' = "close"
    /\ UNCHANGED <<notSockVars, sock_pc, port, sock_flag, sock_counter,
                   sock_max_ops, srv_i, listening, conn, sigalrm, cl_fd,
                   cl_flag, cl_delay>>

\* lines 226-229: the socket is shut down and closed
ClClose ==
    /\ cl_pc = "close"
    /\ cl_fd' = FALSE
    /\ conn' = IF conn = "over" THEN "none" ELSE conn
    /\ cl_pc' = "while"
    /\ UNCHANGED <<notSockVars, sock_pc, port, sock_flag, sock_counter,
                   sock_max_ops, srv_i, listening, sigalrm, cl_flag,
                   cl_delay>>

\* lines 230-232 and 186-191: the loop goes on with a new delay, or the
\* client returns
ClWhile ==
    /\ cl_pc = "while"
    /\ IF ClKeeps
       THEN cl_pc' = "retry" /\ cl_delay' = DELAY_STEP
       ELSE cl_pc' = "signal" /\ cl_delay' = cl_delay
    /\ UNCHANGED <<notSockVars, sock_pc, port, sock_flag, sock_counter,
                   sock_max_ops, srv_i, listening, conn, sigalrm, cl_fd,
                   cl_flag>>

\* lines 417-420: the client has returned; it signals the parent and exits
ClSignal ==
    /\ cl_pc = "signal"
    /\ sigalrm' = TRUE
    /\ cl_pc' = "exited"
    /\ UNCHANGED <<notSockVars, sock_pc, port, sock_flag, sock_counter,
                   sock_max_ops, srv_i, listening, conn, cl_fd, cl_flag,
                   cl_delay>>

\* a signal handler of the client clears its keep-stressing flag
ClClearFlag ==
    /\ cl_pc \in {"retry", "socket", "sockaddr", "connect", "recv", "close",
                  "while"}
    /\ cl_flag
    /\ cl_flag' = FALSE
    /\ UNCHANGED <<notSockVars, sock_pc, port, sock_flag, sock_counter,
                   sock_max_ops, srv_i, listening, conn, sigalrm, cl_pc,
                   cl_fd, cl_delay>>

SockInit == OldIdle /\ SwapIdle /\ TscIdle /\ SockStart /\ SendIdle

SockNext ==
    \/ SockReserveFail
    \/ SockReserve
    \/ SockSighandlerFail
    \/ SockSighandler
    \/ SockForkFail
    \/ SockFork
    \/ SrvSigStopFail
    \/ SrvSigStop
    \/ SrvSocketFail
    \/ SrvListen
    \/ SrvCheck
    \/ SrvAccept
    \/ SrvUnblock
    \/ SrvSignal
    \/ SrvServe
    \/ SrvAfterFor
    \/ SrvWhile
    \/ SrvDie
    \/ SockFinish
    \/ ClRetry
    \/ ClSocketFail
    \/ ClSocket
    \/ ClSockaddrFail
    \/ ClSockaddr
    \/ ClConnect
    \/ ClRecv
    \/ ClRecvIntr
    \/ ClClose
    \/ ClWhile
    \/ ClSignal
    \/ ClClearFlag

SockSpec == SockInit /\ [][SockNext]_vars

\* a pending signal is delivered, and a process that can take a step takes
\* one
SockFairSpec == SockSpec /\ WF_vars(SrvSignal) /\ WF_vars(SockNext)

(***************************************************************************)
(* stress_sendfile() (src/stress-sendfile.c lines 62-199)                  *)
(***************************************************************************)
\* lines 62-76: the stressor begins
SendStart ==
    /\ sf_pc = "mkdir" /\ sf_dir = "none" /\ sf_file = FALSE
    /\ sf_fdin = FALSE /\ sf_fdout = FALSE /\ sf_flag = TRUE
    /\ sf_counter = 0 /\ sf_max_ops \in 1..MaxSendOps /\ sf_i = 0

\* lines 78-80: the temporary directory cannot be made
SendMkdirFail ==
    /\ sf_pc = "mkdir"
    /\ sf_pc' = "returned"
    /\ UNCHANGED <<notSendVars, sf_dir, sf_file, sf_fdin, sf_fdout, sf_flag,
                   sf_counter, sf_max_ops, sf_i>>

\* lines 78-83
SendMkdir ==
    /\ sf_pc = "mkdir"
    /\ sf_dir' = "made"
    /\ sf_pc' = "open"
    /\ UNCHANGED <<notSendVars, sf_file, sf_fdin, sf_fdout, sf_flag,
                   sf_counter, sf_max_ops, sf_i>>

\* lines 85-90: the file cannot be created
SendOpenFail ==
    /\ sf_pc = "open"
    /\ sf_pc' = "dir_out"
    /\ UNCHANGED <<notSendVars, sf_dir, sf_file, sf_fdin, sf_fdout, sf_flag,
                   sf_counter, sf_max_ops, sf_i>>

\* line 85: the file is created and open
SendOpen ==
    /\ sf_pc = "open"
    /\ sf_file' = TRUE
    /\ sf_fdin' = TRUE
    /\ sf_pc' = "fallocate"
    /\ UNCHANGED <<notSendVars, sf_dir, sf_fdout, sf_flag, sf_counter,
                   sf_max_ops, sf_i>>

\* lines 91-101: the allocation fails
SendFallocateFail ==
    /\ sf_pc = "fallocate"
    /\ sf_pc' = "dir_out"
    /\ UNCHANGED <<notSendVars, sf_dir, sf_file, sf_fdin, sf_fdout, sf_flag,
                   sf_counter, sf_max_ops, sf_i>>

\* lines 91-102: the file is allocated and closed
SendFallocate ==
    /\ sf_pc = "fallocate"
    /\ sf_fdin' = FALSE
    /\ sf_pc' = "reopen"
    /\ UNCHANGED <<notSendVars, sf_dir, sf_file, sf_fdout, sf_flag,
                   sf_counter, sf_max_ops, sf_i>>

\* lines 103-108: the file cannot be opened again
SendReopenFail ==
    /\ sf_pc = "reopen"
    /\ sf_pc' = "dir_out"
    /\ UNCHANGED <<notSendVars, sf_dir, sf_file, sf_fdin, sf_fdout, sf_flag,
                   sf_counter, sf_max_ops, sf_i>>

\* line 103: the file is open for reading
SendReopen ==
    /\ sf_pc = "reopen"
    /\ sf_fdin' = TRUE
    /\ sf_pc' = "open_out"
    /\ UNCHANGED <<notSendVars, sf_dir, sf_file, sf_fdout, sf_flag,
                   sf_counter, sf_max_ops, sf_i>>

\* lines 110-115: /dev/null cannot be opened
SendOpenOutFail ==
    /\ sf_pc = "open_out"
    /\ sf_pc' = "close_in"
    /\ UNCHANGED <<notSendVars, sf_dir, sf_file, sf_fdin, sf_fdout, sf_flag,
                   sf_counter, sf_max_ops, sf_i>>

\* lines 110-119
SendOpenOut ==
    /\ sf_pc = "open_out"
    /\ sf_fdout' = TRUE
    /\ sf_pc' = "loop"
    /\ UNCHANGED <<notSendVars, sf_dir, sf_file, sf_fdin, sf_flag,
                   sf_counter, sf_max_ops, sf_i>>

\* lines 121-182, one round of the loop. "sent": sendfile works, the unusual
\* calls of lines 148-180 (they change nothing that is followed here) are
\* made when i is a multiple of 256, and the bogo counter goes up; "eintr":
\* the continue of line 140; "error": lines 132-144. Then the test of line
\* 182, except after an error
SendLoop ==
    /\ sf_pc = "loop"
    /\ \E outcome \in {"sent", "eintr", "error"} :
          /\ sf_i' = IF outcome = "sent" THEN sf_i + 1 ELSE sf_i
          /\ sf_counter' =
                IF outcome = "sent" THEN sf_counter + 1 ELSE sf_counter
          /\ sf_pc' =
                IF outcome = "error" THEN "close_out"
                ELSE IF keep_stressing_args(sf_flag, sf_counter', sf_max_ops)
                THEN "loop" ELSE "close_out"
    /\ UNCHANGED <<notSendVars, sf_dir, sf_file, sf_fdin, sf_fdout, sf_flag,
                   sf_max_ops>>

\* lines 187-189
SendCloseOut ==
    /\ sf_pc = "close_out"
    /\ sf_fdout' = FALSE
    /\ sf_pc' = "close_in"
    /\ UNCHANGED <<notSendVars, sf_dir, sf_file, sf_fdin, sf_flag,
                   sf_counter, sf_max_ops, sf_i>>

\* lines 190-193: the input file is closed and unlinked
SendCloseIn ==
    /\ sf_pc = "close_in"
    /\ sf_fdin' = FALSE
    /\ sf_file' = FALSE
    /\ sf_pc' = "dir_out"
    /\ UNCHANGED <<notSendVars, sf_dir, sf_fdout, sf_flag, sf_counter,
                   sf_max_ops, sf_i>>

\* lines 194-198: the directory is removed, which works when it is empty
SendDirOut ==
    /\ sf_pc = "dir_out"
    /\ sf_dir' = IF sf_file THEN "made" ELSE "removed"
    /\ sf_pc' = "returned"
    /\ UNCHANGED <<notSendVars, sf_file, sf_fdin, sf_fdout, sf_flag,
                   sf_counter, sf_max_ops, sf_i>>

\* the run time is over: the flag is cleared
SendFlagClear ==
    /\ sf_pc # "returned"
    /\ sf_flag
    /\ sf_flag' = FALSE
    /\ UNCHANGED <<notSendVars, sf_pc, sf_dir, sf_file, sf_fdin, sf_fdout,
                   sf_counter, sf_max_ops, sf_i>>

SendInit == OldIdle /\ SwapIdle /\ TscIdle /\ SockIdle /\ SendStart

SendNext ==
    \/ SendMkdirFail
    \/ SendMkdir
    \/ SendOpenFail
    \/ SendOpen
    \/ SendFallocateFail
    \/ SendFallocate
    \/ SendReopenFail
    \/ SendReopen
    \/ SendOpenOutFail
    \/ SendOpenOut
    \/ SendLoop
    \/ SendCloseOut
    \/ SendCloseIn
    \/ SendDirOut
    \/ SendFlagClear

SendSpec == SendInit /\ [][SendNext]_vars

(***************************************************************************)
(* Properties                                                              *)
(***************************************************************************)
Delay(s) ==
    CASE s = "vmstat" -> vmstat_delay
      [] s = "thermalstat" -> thermalstat_delay
      [] s = "iostat" -> iostat_delay

\* C1: with the intervals 5, 7 and 11 given to the three sources in any
\* order (and the block device found), the first report of each source comes
\* when the scheduled sleep adds up to its own interval: 5, 7 and 11 seconds.
IntervalMergingFirstFire ==
    ({vmstat_delay, thermalstat_delay, iostat_delay} = {5, 7, 11}
        /\ iostat_found)
    => \A s \in Sources : (fire[s].first # 0) => (fire[s].first = Delay(s))

\* C2: a source with a non-zero interval never reports at a wake where the
\* scheduled sleep since the worker's start, or since the source's previous
\* report, is less than its interval; block-I/O with failed discovery too.
NeverBeforeInterval ==
    \A s \in Sources :
        (Delay(s) # 0 /\ fire[s].first # 0) => (fire[s].gap >= Delay(s))

\* C3: when a cumulative counter grows by K between two consecutive reads of
\* a source that are T > 0 seconds apart, the rate printed is K / T, T being
\* the time that passed between the two reads.
RateIsGrowthOverElapsed ==
    /\ (vmstat_count > 0 /\ vm_at - vm_was_at > 0)
       => \A f \in VMSTAT_RATE_FIELDS :
             (vmstat_prev[f] >= vmstat_was[f])
             => (vmstat_out.rate[f] * (vm_at - vm_was_at)
                    = vmstat_prev[f] - vmstat_was[f])
    /\ (iostat_count > 0 /\ io_at - io_was_at > 0)
       => \A f \in {"read_io", "write_io", "discard_io"} :
             (iostat_found /\ iostat_prev[f] >= iostat_was[f])
             => (iostat_out.val[f] * iostat_out.clk_scale[1]
                        * (io_at - io_was_at)
                    = (iostat_prev[f] - iostat_was[f])
                        * iostat_out.clk_scale[2])

\* C4: every cumulative field of the result of stress_get_vmstat and every
\* field of the result of stress_get_iostat is current - previous when
\* current > previous and 0 otherwise, and is never below 0.
DeltaIsClamped ==
    /\ \A f \in VMSTAT_DELTA_FIELDS :
          /\ vmstat[f] >= 0
          /\ vmstat[f] = IF vmstat_prev[f] > vmstat_was[f]
                         THEN vmstat_prev[f] - vmstat_was[f] ELSE 0
    /\ \A f \in IOSTAT_FIELDS :
          /\ iostat[f] >= 0
          /\ iostat[f] = IF iostat_prev[f] > iostat_was[f]
                         THEN iostat_prev[f] - iostat_was[f] ELSE 0

\* a counter went back between two reads and its delta is 0, and another
\* source saw a counter grow
DeltaIsClampedWitness ==
    /\ vm_reads >= 2
    /\ vmstat_was["context_switch"] > vmstat_prev["context_switch"]
    /\ vmstat["context_switch"] = 0
    /\ io_reads >= 2
    /\ iostat_prev["read_io"] > iostat_was["read_io"]
    /\ iostat["read_io"] > 0

\* C5: with all three intervals 0, stress_vmstat_start forks no worker,
\* leaves vmstat_pid as it was and no counter source is read.
NoWorkerWhenAllDisabled ==
    (vmstat_delay = 0 /\ thermalstat_delay = 0 /\ iostat_delay = 0)
    => /\ vmstat_pid = 0
       /\ \A p \in Pids : procs[p] = "unborn"
       /\ wpc = "none"
       /\ vm_reads = 0 /\ io_reads = 0

\* start has been called and has returned with all intervals 0
NoWorkerWhenAllDisabledWitness ==
    /\ vmstat_delay = 0 /\ thermalstat_delay = 0 /\ iostat_delay = 0
    /\ last_call = "start"
    /\ vmstat_pid = 0

\* the worker samples only vmstat, every second
VmstatOnlyEverySecond ==
    /\ vmstat_delay = 1 /\ thermalstat_delay = 0 /\ iostat_delay = 0
    /\ WorkerRuns
    /\ wpc \in {"loop", "sleeping"}

\* the last two vmstat reads were one second apart and saw counters that
\* grew by 100 in that second
SyntheticGrowth ==
    /\ vm_at - vm_was_at = 1
    /\ \A f \in VMSTAT_DELTA_FIELDS :
          vmstat_prev[f] = vmstat_was[f] + 100

\* the wakes the worker has completed
WakesDone == IF wpc = "sleeping" THEN Cycles - 1 ELSE Cycles

\* C6 as amended: with only vmstat at interval 1 and counters growing by 100
\* per second, the worker has read once at tick 0 without a report and has
\* printed one rate report per completed wake, at ticks 1, 2, 3, ...
\* (3 reports after 3 seconds), each showing rate 100.
EndToEndOneReportPerTick ==
    VmstatOnlyEverySecond
    => /\ vmstat_count = WakesDone
       /\ vm_reads = vmstat_count + 1
       /\ (vmstat_count > 0)
          => /\ fire["vmstat"].first = 1
             /\ fire["vmstat"].last = vmstat_count
             /\ fire["vmstat"].gap = 1
             /\ SyntheticGrowth
                => \A f \in VMSTAT_RATE_FIELDS : vmstat_out.rate[f] = 100

\* the worker has run for 3 seconds and printed its third report
EndToEndWitness ==
    /\ VmstatOnlyEverySecond
    /\ wpc = "loop" /\ t1 = 3 /\ vm_at = 3
    /\ SyntheticGrowth
    /\ vmstat_count = 3
    /\ vmstat_out.rate["context_switch"] = 100

\* C6: with only vmstat at interval 1 and counters growing by 100 per second,
\* a worker that has run for 3 seconds has printed exactly 2 rate reports, at
\* ticks 2 and 3, each showing rate 100.
EndToEndTwoReports ==
    (VmstatOnlyEverySecond /\ wpc = "loop" /\ t1 = 3 /\ SyntheticGrowth)
    => /\ vmstat_count = 2
       /\ fire["vmstat"].first = 2
       /\ \A f \in VMSTAT_RATE_FIELDS : vmstat_out.rate[f] = 100

\* C7: for vmstat and iostat the first read of the worker only seeds the
\* previous snapshot and prints no report; every later read prints one, with
\* a delta in which every field is >= 0.
FirstReadOnlySeeds ==
    /\ vmstat_count = (IF vm_reads = 0 THEN 0 ELSE vm_reads - 1)
    /\ iostat_count = (IF io_reads = 0 THEN 0 ELSE io_reads - 1)
    /\ (vm_reads = 1) => (vmstat_prev = stress_read_vmstat(Tables, vm_at)
                            \/ vmstat_prev = ZeroVmstat)
    /\ \A f \in VMSTAT_FIELDS : vmstat[f] >= 0
    /\ \A f \in IOSTAT_FIELDS : iostat[f] >= 0
    /\ (vm_reads = 1) => (vmstat_out = NoVmstatLine)
    /\ (io_reads = 1) => (iostat_out = NoIostatLine)

\* both sources were seeded, printed nothing then, and have reported since
FirstReadOnlySeedsWitness ==
    /\ vm_reads = 2 /\ vmstat_count = 1
    /\ io_reads = 2 /\ iostat_count = 1
    /\ vmstat_was # ZeroVmstat
    /\ vmstat["context_switch"] > 0

\* C8: when stop is called while the worker sleeps, stop returns with the
\* worker killed and reaped, and the worker never ran on to the end of its
\* sleep.
StopDuringSleepReturns ==
    (ppc = "waitpid" /\ wpid = vmstat_pid /\ wpc = "sleeping")
    ~> (ppc = "idle" /\ last_call = "stop" /\ wpid = vmstat_pid
           /\ wpid \in Pids /\ procs[wpid] = "reaped" /\ wpc = "sleeping")

\* stop has returned and the worker it killed in its sleep is reaped
StopDuringSleepWitness ==
    /\ ppc = "idle" /\ last_call = "stop"
    /\ wpid = vmstat_pid /\ wpid \in Pids
    /\ procs[wpid] = "reaped"
    /\ wpc = "sleeping"

\* C9: a second or later call of stress_vmstat_stop, after the worker was
\* killed and reaped, sends no signal to any process: no step takes the
\* caller to the kill() and waitpid() of stop when the worker that vmstat_pid
\* names is already reaped.
SecondStopSendsNoSignal ==
    [][(ppc = "idle" /\ vmstat_pid \in Pids /\ procs[vmstat_pid] = "reaped")
          => (ppc' # "waitpid")]_vars

\* C10: once a sequence of start and stop calls has ended with a stop, no
\* worker forked by any of the starts is still running.
NoWorkerAfterStop ==
    (ppc = "idle" /\ last_call = "stop")
    => \A p \in Pids : procs[p] # "running"

Sleep(s) ==
    CASE s = "vmstat" -> vmstat_sleep
      [] s = "thermalstat" -> thermalstat_sleep
      [] s = "iostat" -> iostat_sleep

Count(s) ==
    CASE s = "vmstat" -> vmstat_count
      [] s = "thermalstat" -> thermalstat_count
      [] s = "iostat" -> iostat_count

\* the smallest number of a set, INT_MAX for the empty set
SmallestOf(S) == IF S = {} THEN INT_MAX ELSE CHOOSE x \in S : \A y \in S : x <= y

\* the worker is in its loop, between two cycles or asleep
InLoop == WorkerRuns /\ wpc \in {"loop", "sleeping"}

\* C11: when stress_iostat_iostat_name finds no statistics file at worker
\* start, the iostat source is disabled for the rest of the run: it prints
\* no header or data line at any later wake, and its interval takes no part
\* in the sleep time.
DiscoveryFailureDisablesIostat ==
    (InLoop /\ ~iostat_found)
    => /\ iostat_count = 0
       /\ fire["iostat"].first = 0
       /\ iostat_out = NoIostatLine
       /\ sleep_delay = SmallestOf({vmstat_delay, thermalstat_delay} \ {0})

\* C12: a source with interval 0 never prints a line and adds nothing to the
\* sleep time, at any wake: its countdown falls by the sleep time at every
\* wake, is never reset, and is never equal to its interval again.
ZeroIntervalNeverFires ==
    InLoop
    => /\ \A s \in Sources :
             (Delay(s) = 0)
             => /\ Count(s) = 0
                /\ fire[s].first = 0
                /\ Sleep(s) = 0 - (WakesDone * sleep_delay)
                /\ (WakesDone > 0) => (Sleep(s) # Delay(s))
       /\ (vmstat_delay = 0) => (vm_reads = 0 /\ vmstat_out = NoVmstatLine)
       /\ (iostat_delay = 0) => (io_reads = 0 /\ iostat_out = NoIostatLine)
       /\ sleep_delay = SmallestOf({Delay(s) : s \in Sources} \ {0})

\* after two wakes the disabled vmstat source has a countdown below 0 and has
\* printed nothing, the thermal source beside it has reported
ZeroIntervalWitness ==
    /\ InLoop /\ wpc = "loop" /\ WakesDone >= 2
    /\ vmstat_delay = 0 /\ vmstat_sleep < 0 /\ vmstat_count = 0
    /\ thermalstat_delay > 0 /\ thermalstat_count >= 2

\* C13: in every cycle the amount added to the wake target is the smallest
\* remaining countdown of the sources with a non-zero interval (block device
\* found), so the source nearest to its end is due at that wake.
SleepIsMinRemaining ==
    [][(InLoop /\ wpc = "loop" /\ (iostat_delay = 0 \/ iostat_found)
           /\ t1' > t1)
          => (t1' - t1 = SmallestOf({Sleep(s) : s \in {x \in Sources :
                                                         Delay(x) > 0}}))]_vars

\* C14: in every state of the worker each countdown lies between 0 and the
\* interval of its source, for sources with interval 0 and after a failed
\* discovery too.
CountdownInRange ==
    (WorkerRuns /\ wpc \in {"init", "loop", "sleeping"})
    => \A s \in Sources : (0 <= Sleep(s)) /\ (Sleep(s) <= Delay(s))

\* C15: an interval option value outside 1..3600 is fatal inside the setter:
\* the process prints the range message and exits with failure, and a process
\* that has exited this way never called stress_vmstat_start and forked no
\* worker.
OutOfRangeIsFatal ==
    /\ [](ppc = "exited"
             => /\ report = "range"
                /\ last_call = "none"
                /\ vmstat_pid = 0
                /\ wpc = "none"
                /\ \A p \in Pids : procs[p] = "unborn")
    /\ [][(ppc = "options" /\ opts # <<>> /\ Head(opts)[2] \notin 1..3600)
             => (ppc' = "exited" /\ report' = "range")]_vars

\* the second option of a command line was out of range: the process has
\* exited after a first option that was taken
OutOfRangeWitness ==
    /\ ppc = "exited" /\ report = "range"
    /\ vmstat_delay = 1 /\ iostat_delay = 3601
    /\ \A p \in Pids : procs[p] = "unborn"

\* C16: an interval option with value 0 is accepted (and disables the source
\* like an absent option): the setter does not end the process.
ZeroIntervalAccepted ==
    [][(ppc = "options" /\ opts # <<>> /\ Head(opts)[2] = 0)
          => (ppc' # "exited" /\ report' = "none")]_vars

\* C17: when the fork of stress_vmstat_start fails, the failure is reported
\* to the caller as a failed start (and the caller goes on without metrics).
ForkFailureIsReported ==
    (last_call = "start" /\ vmstat_pid < 0)
    => (report # "none" /\ ppc \in {"idle", "waitpid"})

\* C18: when the keep-stressing flag was cleared while the worker was asleep,
\* the worker tests the flag right after the wake and leaves without a read
\* or a report for the sources due at that wake.
WakeAfterCancelReportsNothing ==
    [][(InLoop /\ wpc = "sleeping" /\ ~keep_stressing /\ wpc' = "loop")
          => /\ \A s \in Sources : Count(s)' = Count(s)
             /\ vm_reads' = vm_reads
             /\ io_reads' = io_reads]_vars

\* C19: a failed read (a zero-filled current snapshot) in one cycle affects
\* the report of that cycle only: the delta of the next read that succeeds
\* is the growth of the counter since the reading before, not the whole
\* cumulative value.
FailedReadAffectsOneCycle ==
    /\ (vm_reads >= 3 /\ vmstat_was = ZeroVmstat
           /\ vmstat_prev = stress_read_vmstat(Tables, vm_at))
       => \A f \in VMSTAT_DELTA_FIELDS :
             vmstat[f] = OsCounter(vm_at) - OsCounter(vm_was_at)
    /\ (io_reads >= 3 /\ iostat_found /\ iostat_was = ZeroIostat
           /\ iostat_prev = stress_read_iostat(TRUE, io_at))
       => \A f \in IOSTAT_FIELDS \ {"in_flight"} :
             iostat[f] = OsCounter(io_at) - OsCounter(io_was_at)

\* how far behind its wake target the worker made the reads of its last cycle
Lateness == now - t1

\* a step of the running worker's loop that moves its clock or its target
LoopStep ==
    /\ InLoop
    /\ wpid' = wpid /\ procs'[wpid] = "running"
    /\ wpc' \in {"loop", "sleeping"}
    /\ <<wpc, t1, now>>' # <<wpc, t1, now>>

ReportsInFixedOrder ==
    LET rank(k) == CASE k = "vmstat" -> 1
                     [] k = "thermalstat" -> 2
                     [] k = "iostat" -> 3
    IN  \A i, j \in 1..Len(wake_out) :
           (i < j) => (rank(wake_out[i].kind) < rank(wake_out[j].kind))

\* a wake at which the thermal and the iostat source were both due
ReportsInFixedOrderWitness ==
    /\ InLoop
    /\ Len(wake_out) = 2
    /\ wake_out[1].kind = "thermalstat"
    /\ wake_out[2].kind = "iostat"

\* C22: for each kind of report the header line is printed immediately
\* before the 1st, 26th, 51st, ... report of that kind, that is before report
\* number n exactly when (n - 1) mod 25 = 0, and before no other; the count
\* of a kind is advanced by one by every report of that kind and by nothing
\* else.
HeaderEvery25th ==
    /\ [](\A i \in 1..Len(wake_out) :
            wake_out[i].header = (((Count(wake_out[i].kind) - 1) % 25) = 0))
    /\ [][(wpc = "loop" /\ wpc' = "loop" /\ wpid' = wpid /\ t1' # t1)
           => \A k \in Sources :
                 Count(k)' = Count(k) +
                    (IF \E i \in 1..Len(wake_out') : wake_out'[i].kind = k
                     THEN 1 ELSE 0)]_vars

\* the wake of second 26 with intervals 1, 2, 3: the 26th vmstat report
\* has a header, the 13th thermal report has none
HeaderEvery25thWitness ==
    /\ InLoop
    /\ vmstat_count = 26 /\ thermalstat_count = 13
    /\ wake_out = << [kind |-> "vmstat", header |-> TRUE],
                     [kind |-> "thermalstat", header |-> FALSE] >>

\* what a read at time t has to find when the tables in tabs can be opened:
\* the value the table holds (swap_used worked out as total - free), and 0
\* for a field of a table that cannot be opened
TablesHold(tabs, t) ==
    [f \in VMSTAT_FIELDS |->
        IF TableOf(f) \notin tabs THEN 0
        ELSE IF f = "swap_used" THEN 4 - OsGauge(t)
        ELSE OsVmstat(t)[f]]

\* C23: in the result of stress_get_vmstat the nine gauge fields
\* (procs_running, procs_blocked, swap_total, swap_used, swap_free,
\* memory_free, memory_buff, memory_cached, memory_reclaimable) equal the
\* value just read, the eleven cumulative fields (swap_in, swap_out,
\* block_in, block_out, interrupt, context_switch and the five CPU times)
\* equal the clamped difference to the previous snapshot, and after the call
\* the previous snapshot is the snapshot just read.
GaugesCopiedCountersDifferenced ==
    (vm_reads > 0) =>
       /\ vmstat_prev = TablesHold(vm_tabs, vm_at)
       /\ \A f \in {"procs_running", "procs_blocked", "swap_total",
                     "swap_used", "swap_free", "memory_free", "memory_buff",
                     "memory_cached", "memory_reclaimable"} :
             vmstat[f] = vmstat_prev[f]
       /\ \A f \in {"swap_in", "swap_out", "block_in", "block_out",
                     "interrupt", "context_switch", "user_time",
                     "system_time", "idle_time", "wait_time", "stolen_time"} :
             vmstat[f] = IF vmstat_prev[f] > vmstat_was[f]
                         THEN vmstat_prev[f] - vmstat_was[f] ELSE 0

\* between two reads a gauge went from 1 to 2 and a counter grew by 100:
\* the result shows 2 and 100
GaugesCopiedWitness ==
    /\ vm_reads >= 2
    /\ vmstat_was["procs_running"] = 1 /\ vmstat_prev["procs_running"] = 2
    /\ vmstat["procs_running"] = 2
    /\ vmstat["interrupt"] = 100

NoDivisionByZero ==
    /\ (vmstat_count > 0) => (vmstat_delay > 0)
    /\ \A f \in {"swap_in", "swap_out", "block_in", "block_out", "interrupt",
                  "context_switch"} : vmstat_out.rate[f] >= 0
    /\ iostat_out.clk_scale[2] > 0
    /\ (iostat_count > 0 /\ iostat_delay > 0)
          => (iostat_out.clk_scale = <<1, iostat_delay>>)
    /\ (iostat_delay <= 0) => (iostat_out.clk_scale = <<0, 1>>)

\* the vmstat source has interval 0 and its countdown has run below 0
\* without a report, while the iostat source has reported with scale 1/1
NoDivisionByZeroWitness ==
    /\ InLoop
    /\ vmstat_delay = 0 /\ vmstat_sleep < 0 /\ vmstat_count = 0
    /\ iostat_count >= 2 /\ iostat_out.clk_scale = <<1, 1>>

\* C30: the in_flight value of an iostat line is the gauge as it was just
\* read from the statistics file, not a difference to the read before.
InFlightIsGaugeJustRead ==
    (InLoop /\ iostat_found /\ iostat_count > 0 /\ io_reads >= 2)
    => (iostat_out.val["in_flight"] = iostat_prev["in_flight"])

\* the name of the device a call was made for, behind its prefix
BaseName ==
    LET q == CHOOSE k \in 0..Len(mount_dev) :
                /\ \A i \in 1..k : mount_dev[i] \in {"/dev", "/"}
                /\ (k < Len(mount_dev)) => (mount_dev[k + 1] \notin {"/dev", "/"})
    IN  SubSeq(mount_dev, q + 1, Len(mount_dev))

\* the candidates of a name: the name itself and the name with some of its
\* trailing decimal digits removed, the empty name excluded
Candidates(name) ==
    { SubSeq(name, 1, n) : n \in { m \in 1..Len(name) :
         \A i \in (m + 1)..Len(name) :
            name[i] \in {"0", "1", "2", "3", "4", "5", "6", "7", "8", "9"} } }

\* C28: stress_iostat_iostat_name tries the device name as resolved and then
\* the name with trailing characters removed one at a time, removing decimal
\* digits only; it returns the first, that is the longest, candidate whose
\* statistics file exists, and not-found when no candidate has one (it gives
\* up at a last character that is no digit or when the name is used up); it
\* makes at most as many tries as the name has characters.
NameIsLongestCandidate ==
    (name_pc = "done" /\ mount_dev # <<"NULL">>) =>
       LET have == Candidates(BaseName) \cap sys_block
       IN  /\ tries <= Len(BaseName)
           /\ (have = {}) => iostat_name.null
           /\ (have # {}) =>
                 /\ ~iostat_name.null
                 /\ iostat_name.dev \in have
                 /\ \A c \in have : Len(c) <= Len(iostat_name.dev)

\* two digits were cut off before the file of the name was found, at the
\* third try
NameIsLongestCandidateWitness ==
    /\ name_pc = "done" /\ tries = 3
    /\ BaseName = <<"n", "2", "1">>
    /\ iostat_name = [null |-> FALSE, dev |-> <<"n">>]

\* C26: the vm-segv bogo counter counts SIGSEGV faults of the unmapping
\* child: it is incremented only when the parent has just observed that the
\* child was stopped or terminated by SIGSEGV, and at most once per forked
\* child.
CounterCountsSegvOnly ==
    [][(segv_counter' # segv_counter)
          => /\ segv_status' \in {"stop_SIGSEGV", "term_SIGSEGV"}
             /\ segv_incs' <= 1]_vars

\* the bogo operations made so far: the value of the token, in the pipe or
\* in the hands of the process that has read it
HerdToken ==
    IF pipe_fd # <<>> THEN Head(pipe_fd)
    ELSE IF \E p \in Herd : herd_pc[p] = "write"
    THEN herd_counter[CHOOSE p \in Herd : herd_pc[p] = "write"]
    ELSE herd_bogo

\* the processes of the herd that have been started
HerdSize == Cardinality({p \in Herd : herd_pc[p] # "unborn"})

\* C27: with pipeherd-ops N the stressor stops after N bogo operations: the
\* limit takes effect while the token is passed and not only through the
\* run-time limit, so with the keep-stressing flag still set the token goes
\* past N by no more than the operations the processes of the herd had
\* begun when N was reached, one each.
OpsLimitStopsHerd ==
    (herd_max_ops > 0 /\ herd_flag)
    => (HerdToken <= herd_max_ops + HerdSize)

\* C29: stress_fsize_reported behaves exactly like membership-then-insert on
\* a set keyed by (offset, type): it returns false on the first call for a
\* pair and true on every later call for that pair, also after more than
\* 256 distinct pairs have been seen.
FsizeReportedIsSet ==
    (fsize_order # <<>>) => (fsize_ret = ~fsize_new)

\* C29 as amended: the set holds 256 pairs at most. The function returns
\* false on the first call for a pair; on a later call it returns true when
\* the pair is one of the first 256 distinct pairs, and false again when it
\* is not.
FsizeReportedIsBoundedSet ==
    (fsize_order # <<>>) =>
       (fsize_ret = (/\ ~fsize_new
                     /\ \E i \in 1..Len(fsize_order) :
                           (i <= 256) /\ (fsize_order[i] = fsize_arg)))

\* the table is full and the 257th pair is asked about a second time: the
\* answer is false again
FsizeReportedWitness ==
    /\ Len(reported) = 256
    /\ Len(fsize_order) = 257 /\ fsize_arg = fsize_order[257]
    /\ ~fsize_new /\ ~fsize_ret
\* C31: when the memory table has SwapTotal and SwapFree lines and no
\* SwapUsed line, the swap-used value of the snapshot is SwapTotal - SwapFree
\* for every SwapFree <= SwapTotal, a SwapFree of 0 included.
SwapUsedIsTotalMinusFree ==
    (swap_pc = "done" /\ meminfo.SwapUsed = 0)
        => swap.swap_used = meminfo.SwapTotal - meminfo.SwapFree

\* the top bit of a counter word
TopBit(v) == IF v >= 2^(TscBits - 1) THEN 1 ELSE 0

\* C32: stress_tsc_check reports a failure exactly when the counter did not
\* grow and the top bits of the two values are equal; it reports nothing
\* when the counter grew or the top bits differ (taken as a wraparound).
TscFailsIffNoGrowthInSameHalf ==
    (tsc_pc = "assign")
        => (tsc_fail = ((tsc <= old_tsc) /\ (TopBit(tsc) = TopBit(old_tsc))))

\* a check that reported a counter that stood still in the lower half
TscFailsWitness ==
    /\ tsc_pc = "assign" /\ tsc_fail
    /\ tsc = old_tsc /\ TopBit(tsc) = 0 /\ tsc > 0

\* C33: stress_vmstat_stop signals and waits only when a worker was created:
\* while vmstat_pid is 0 (start returned without forking) or -1 (the fork
\* failed) no step takes the caller to the kill() and waitpid() of stop, and
\* the call of stop returns at once and leaves every process as it was.
StopWithoutWorkerIsNoop ==
    [][(ppc = "idle" /\ ~(vmstat_pid > 0))
          => /\ ppc' # "waitpid"
             /\ (last_call # "stop" /\ last_call' = "stop")
                   => (procs' = procs /\ ppc' = "idle"
                       /\ vmstat_pid' = vmstat_pid)]_vars

\* stop has returned after a start whose fork failed, and the worker of an
\* earlier start runs on, unsignalled
StopWithoutWorkerWitness ==
    /\ ppc = "idle" /\ last_call = "stop" /\ vmstat_pid = -1
    /\ \E p \in Pids : procs[p] = "running"

\* the processes that have read the token and not yet written it back
HerdHolders == {p \in Herd : herd_pc[p] = "write"}

\* C34: with no I/O errors there is exactly one token until the parent's
\* final read, in the pipe or in the hands of exactly one process between
\* its read and its write; the token starts at 0 and its value goes up by
\* one with every read-increment-write cycle that any process completes and
\* changes with no other step, so it is the number of cycles completed; the
\* parent's final read takes the token and makes its value the bogo counter.
OneTokenCountsCycles ==
    /\ [](IF herd_pc[0] \in {"reap", "done"}
          THEN pipe_fd = <<>> /\ HerdHolders = {}
          ELSE Len(pipe_fd) + Cardinality(HerdHolders) = 1)
    /\ [](herd_pc[0] = "forking" /\ herd_i = 0 => HerdToken = 0)
    /\ [][HerdToken' =
             IF \E p \in Herd : herd_pc[p] = "write" /\ herd_pc'[p] = "loop"
             THEN HerdToken + 1 ELSE HerdToken]_vars

\* the parent has made the token its bogo counter after both children and
\* the parent itself have completed cycles
OneTokenWitness ==
    /\ herd_pc[0] = "done" /\ herd_bogo >= 3
    /\ \A p \in Herd : herd_counter[p] > 0
    /\ herd_counter[1] # herd_counter[2]

\* the client has run stress_sockabuse_client to its return
ClReturned == cl_pc \in {"signal", "exited"}

\* C35: once the client child has exited and sent SIGALRM to the parent, the
\* server loop ends, however the delivery of the signal falls between the
\* server's keep_stressing test and its accept call; and the server has
\* killed and reaped the client when it returns.
ServerEndsAfterClientSignal ==
    /\ (cl_pc = "exited") ~> (sock_pc \in {"finish", "returned"})
    /\ [](sock_pc \in {"finish", "returned"} /\ cl_pc # "unborn"
            => cl_pc = "reaped")

\* C36: every return of stress_sockabuse after the port was reserved has
\* released the port.
PortReleasedOnReturn ==
    (sock_pc = "returned" /\ port # "free") => port = "released"

\* C38: the retry delay of the client is 10000 microseconds at the start of
\* every connection attempt sequence, grows by 10000 with every failed
\* connect and never exceeds 250000; a new attempt begins only with the
\* keep-stressing flag set; the client holds no open socket when it opens
\* the next one or returns.
ClientBacksOffAndClosesSockets ==
    /\ [](cl_pc \notin {"unborn", "reaped"}
            => cl_delay \in DELAY_STEP..DELAY_MAX)
    /\ [](cl_pc \in {"retry", "socket"} \/ ClReturned => ~cl_fd)
    /\ [][/\ (cl_pc = "connect" /\ cl_pc' = "retry")
               => cl_delay' = IF cl_delay < DELAY_MAX
                              THEN cl_delay + DELAY_STEP ELSE DELAY_MAX
          /\ (cl_pc = "while" /\ cl_pc' = "retry") => cl_delay' = DELAY_STEP
          /\ (cl_pc' = "socket" /\ cl_pc # "socket") => cl_flag
          /\ (cl_pc \notin {"connect", "while", "unborn"}
                /\ cl_pc' # "reaped") => cl_delay' = cl_delay]_vars

\* C37: every exit of stress_sendfile after the temporary input file was
\* created has closed the input descriptor and unlinked the file when it
\* comes to remove the temporary directory, the exits after a failed
\* fallocate and a failed read-only reopen included.
SendfileCleansUpInput ==
    (sf_pc \in {"dir_out", "returned"}) => (~sf_fdin /\ ~sf_file)

\* C39: in stress_vm_segv at most one child exists at any time: whenever the
\* parent stands before a fork, at the condition of the outer loop, at
\* finish: or has returned, the child it forked last has been reaped, on
\* every path of the wait and trace loops, a failed waitpid() included; and
\* a fork is only ever made when no child is left
NoChildOutlivesItsRound ==
    /\ [](segv_pc \in {"fork", "while", "finish", "done", "error"}
            => segv_child = "none")
    /\ [][segv_forks' # segv_forks => segv_child = "none"]_vars

\* a second child has been forked after a waitpid() for the first one failed
SecondForkAfterFailedWait ==
    /\ segv_pc = "wait1" /\ segv_forks = 2
    /\ segv_status = "fail" /\ segv_child = "alive"

====
